---- MODULE Spec2Model ----
(***************************************************************************)
(* Twiggy (cursor_context): the codebase indexer, the skeleton generator   *)
(* and the file watcher that drives them.                                  *)
(*                                                                         *)
(* Text is a sequence of tokens (pieces of a Python str); the token "\n"   *)
(* is a line break.  A syntax tree node is a record [type, text, children] *)
(* where text is the node's verbatim source slice.                         *)
(***************************************************************************)
EXTENDS Integers, Sequences, FiniteSets, TLC

\* ---------------------------------------------------------------- bounds
\* Number of filesystem changes the environment makes in one behaviour.
MaxChanges == 2
\* Last value of the wall clock, in seconds.
MaxTime == 3

\* ------------------------------------------------------- program constants
\* CursorContextHandler.update_delay (seconds).
UpdateDelay == 1
\* _format_export shows at most this many members.
MemberLimit == 10

NL == "\n"

\* ------------------------------------------------------------ generic help
RECURSIVE Concat(_)
\* "".join(parts) for a sequence of texts.
Concat(parts) ==
    IF parts = <<>> THEN <<>> ELSE Head(parts) \o Concat(Tail(parts))

RECURSIVE Join(_, _)
\* sep.join(parts): the parts with sep between neighbours.
Join(sep, parts) ==
    IF parts = <<>> THEN <<>>
    ELSE IF Len(parts) = 1 THEN parts[1]
    ELSE parts[1] \o sep \o Join(sep, Tail(parts))

\* seq[:n]
Take(seq, n) == SubSeq(seq, 1, IF n < Len(seq) THEN n ELSE Len(seq))

Range(seq) == {seq[i] : i \in 1..Len(seq)}

\* ------------------------------------------------------------ syntax trees
\* An Optional[x] is a sequence: <<>> is None and <<x>> is the value x.
None == <<>>
Some(x) == <<x>>

Node(type, text, children) == [type |-> type, text |-> text, children |-> children]
Leaf(type, text) == Node(type, text, <<>>)

\* TypeScriptExtractor._get_text
GetText(node) == node.text

\* TypeScriptExtractor._find_child: the first child of the type, or None.
FindChild(node, type_name) ==
    LET hits == {i \in 1..Len(node.children) : node.children[i].type = type_name}
    IN IF hits = {} THEN None
       ELSE Some(node.children[CHOOSE i \in hits : \A j \in hits : i <= j])

\* `self._get_text(n, source) if n else default`
TextOr(opt, default) == IF opt = None THEN default ELSE GetText(opt[1])

\* `a or b` on two Optional nodes
OrElse(a, b) == IF a # None THEN a ELSE b

\* ExportedItem(kind, name, signature, methods)
ExportedItem(kind, name, signature, methods) ==
    [kind |-> kind, name |-> name, signature |-> signature, methods |-> methods]

\* any(c.type == type_name for c in node.children)
HasChild(node, type_name) == \E i \in 1..Len(node.children) : node.children[i].type = type_name

\* Faulty variant of ExtractFunction: the default token is not rendered.
ExtractFunction_NeverDefault(node, is_default) ==
    LET name_node == FindChild(node, "identifier")
        params == TextOr(FindChild(node, "formal_parameters"), <<"()">>)
        return_type == TextOr(FindChild(node, "type_annotation"), <<>>)
    IN IF name_node = None THEN None
       ELSE Some(ExportedItem("function", GetText(name_node[1]),
                <<"export ">> \o <<"function ">> \o GetText(name_node[1]) \o params
                    \o return_type,
                <<>>))

\* TypeScriptExtractor._extract_function
ExtractFunction(node, is_default) ==
    LET name_node == FindChild(node, "identifier")
        params == TextOr(FindChild(node, "formal_parameters"), <<"()">>)
        return_type == TextOr(FindChild(node, "type_annotation"), <<>>)
        prefix == IF is_default THEN <<"export default ">> ELSE <<"export ">>
    IN IF name_node = None THEN None
       ELSE Some(ExportedItem("function", GetText(name_node[1]),
                prefix \o <<"function ">> \o GetText(name_node[1]) \o params \o return_type,
                <<>>))

\* TypeScriptExtractor._extract_function_signature
ExtractFunctionSignature(node) ==
    LET name_node == FindChild(node, "identifier")
        params == TextOr(FindChild(node, "formal_parameters"), <<"()">>)
        return_type == TextOr(FindChild(node, "type_annotation"), <<>>)
    IN IF name_node = None THEN None
       ELSE Some(ExportedItem("function", GetText(name_node[1]),
                <<"export ", "function ">> \o GetText(name_node[1]) \o params \o return_type,
                <<>>))

\* TypeScriptExtractor._extract_method_signature
ExtractMethodSignature(node) ==
    LET is_private == \E i \in 1..Len(node.children) :
                         /\ node.children[i].type \in {"private", "accessibility_modifier"}
                         /\ GetText(node.children[i]) = <<"private">>
        name_node == FindChild(node, "property_identifier")
        params == TextOr(FindChild(node, "formal_parameters"), <<"()">>)
        return_type == TextOr(FindChild(node, "type_annotation"), <<>>)
        modifiers == Concat([i \in 1..Len(node.children) |->
                        IF node.children[i].type = "async" THEN <<<<"async">>>>
                        ELSE IF node.children[i].type = "static" THEN <<<<"static">>>>
                        ELSE <<>>])
        prefix == IF modifiers # <<>> THEN Join(<<" ">>, modifiers) \o <<" ">> ELSE <<>>
    IN IF is_private \/ name_node = None THEN None
       ELSE Some(prefix \o GetText(name_node[1]) \o params \o return_type)

\* TypeScriptExtractor._extract_field_signature
ExtractFieldSignature(node) ==
    LET name_node == FindChild(node, "property_identifier")
        type_str == TextOr(FindChild(node, "type_annotation"), <<>>)
    IN IF name_node = None THEN None
       ELSE Some(GetText(name_node[1]) \o type_str)

\* TypeScriptExtractor._extract_class
ExtractClass(node, is_default) ==
    LET name_node == OrElse(FindChild(node, "identifier"), FindChild(node, "type_identifier"))
        heritage_node == FindChild(node, "class_heritage")
        heritage == IF heritage_node = None THEN <<>>
                    ELSE <<" ">> \o GetText(heritage_node[1])
        class_body == FindChild(node, "class_body")
        member(m) == IF m.type = "method_definition" THEN ExtractMethodSignature(m)
                     ELSE IF m.type = "public_field_definition" THEN ExtractFieldSignature(m)
                     ELSE None
        methods == IF class_body = None THEN <<>>
                   ELSE Concat([i \in 1..Len(class_body[1].children) |->
                                   member(class_body[1].children[i])])
        prefix == IF is_default THEN <<"export default ">> ELSE <<"export ">>
    IN IF name_node = None THEN None
       ELSE Some(ExportedItem("class", GetText(name_node[1]),
                prefix \o <<"class ">> \o GetText(name_node[1]) \o heritage, methods))

\* The type alias bounds of _extract_type_alias, in characters; a token of a
\* type expression stands for one character.
TypeValueLimit == 100
TypeValueKept == 97

\* Faulty variant of Truncate: the first 100 characters are kept.
Truncate_Late(type_value) ==
    IF Len(type_value) > TypeValueLimit
    THEN Take(type_value, TypeValueLimit) \o <<".", ".", ".">>
    ELSE type_value

\* `if len(type_value) > 100: type_value = type_value[:97] + '...'`
Truncate(type_value) ==
    IF Len(type_value) > TypeValueLimit
    THEN Take(type_value, TypeValueKept) \o <<".", ".", ".">>
    ELSE type_value

\* TypeScriptExtractor._extract_type_alias
ExtractTypeAlias(node) ==
    LET name_node == FindChild(node, "type_identifier")
        type_params_str == TextOr(FindChild(node, "type_parameters"), <<>>)
        skipped == {"export", "type", "type_identifier", "type_parameters", "="}
        rest == {i \in 1..Len(node.children) : node.children[i].type \notin skipped}
        type_node == IF rest = {} THEN None
                     ELSE Some(node.children[CHOOSE i \in rest : \A j \in rest : i <= j])
        type_value == TextOr(type_node, <<>>)
        shown == Truncate(type_value)
    IN IF name_node = None THEN None
       ELSE Some(ExportedItem("type", GetText(name_node[1]),
                <<"export type ">> \o GetText(name_node[1]) \o type_params_str
                    \o <<" = ">> \o shown,
                <<>>))

\* TypeScriptExtractor._extract_property_signature
ExtractPropertySignature(node) ==
    LET name_node == FindChild(node, "property_identifier")
        optional == IF FindChild(node, "?") = None THEN <<>> ELSE <<"?">>
        type_str == TextOr(FindChild(node, "type_annotation"), <<>>)
    IN IF name_node = None THEN None
       ELSE Some(GetText(name_node[1]) \o optional \o type_str)

\* TypeScriptExtractor._extract_interface_method_signature
ExtractInterfaceMethodSignature(node) ==
    LET name_node == FindChild(node, "property_identifier")
        params == TextOr(FindChild(node, "formal_parameters"), <<"()">>)
        return_type == TextOr(FindChild(node, "type_annotation"), <<>>)
    IN IF name_node = None THEN None
       ELSE Some(GetText(name_node[1]) \o params \o return_type)

\* TypeScriptExtractor._extract_interface
ExtractInterface(node) ==
    LET name_node == FindChild(node, "type_identifier")
        type_params_str == TextOr(FindChild(node, "type_parameters"), <<>>)
        extends_node == FindChild(node, "extends_type_clause")
        extends == IF extends_node = None THEN <<>>
                   ELSE <<" ">> \o GetText(extends_node[1])
        body == OrElse(FindChild(node, "interface_body"), FindChild(node, "object_type"))
        member(m) == IF m.type = "property_signature" THEN ExtractPropertySignature(m)
                     ELSE IF m.type = "method_signature"
                          THEN ExtractInterfaceMethodSignature(m)
                     ELSE None
        properties == IF body = None THEN <<>>
                      ELSE Concat([i \in 1..Len(body[1].children) |->
                                      member(body[1].children[i])])
    IN IF name_node = None THEN None
       ELSE Some(ExportedItem("interface", GetText(name_node[1]),
                <<"export interface ">> \o GetText(name_node[1]) \o type_params_str
                    \o extends,
                properties))

\* Faulty variant of DeclaratorKind: the kind is the keyword.
DeclaratorKind_Keyword(keyword) == keyword

\* `'const' if keyword == 'const' else 'variable'`
DeclaratorKind(keyword) == IF keyword = "const" THEN "const" ELSE "variable"

\* TypeScriptExtractor._extract_variable_declarator
ExtractVariableDeclarator(node, keyword) ==
    LET name_node == FindChild(node, "identifier")
        type_str == TextOr(FindChild(node, "type_annotation"), <<>>)
        fns == {i \in 1..Len(node.children) :
                   node.children[i].type \in {"arrow_function", "function_expression", "function"}}
        value_node == IF fns = {} THEN None
                      ELSE Some(node.children[CHOOSE i \in fns : \A j \in fns : i <= j])
        params_node == FindChild(value_node[1], "formal_parameters")
        param_node == FindChild(value_node[1], "identifier")
        return_type == TextOr(FindChild(value_node[1], "type_annotation"), <<>>)
        arrow_params == IF params_node # None THEN GetText(params_node[1])
                        ELSE IF param_node # None
                             THEN <<"(">> \o GetText(param_node[1]) \o <<")">>
                        ELSE <<"()">>
        head == <<"export ">> \o <<keyword>> \o <<" ">> \o GetText(name_node[1])
    IN IF name_node = None THEN None
       ELSE IF value_node # None
       THEN IF value_node[1].type = "arrow_function"
            THEN Some(ExportedItem("function", GetText(name_node[1]),
                     head \o <<" = ">> \o arrow_params \o return_type \o <<" => ...">>,
                     <<>>))
            ELSE Some(ExportedItem("function", GetText(name_node[1]),
                     head \o <<" = function">> \o TextOr(params_node, <<"()">>)
                          \o return_type,
                     <<>>))
       ELSE Some(ExportedItem(DeclaratorKind(keyword),
                     GetText(name_node[1]), head \o type_str, <<>>))

\* Faulty variant of ExtractLexicalDeclaration: a declarator without a name
\* loses the whole statement.
ExtractLexicalDeclaration_AllOrNothing(node) ==
    LET kws == {i \in 1..Len(node.children) : node.children[i].type \in {"const", "let", "var"}}
        keyword == IF kws = {} THEN "const"
                   ELSE node.children[CHOOSE i \in kws : \A j \in kws : i <= j].type
    IN IF \E i \in 1..Len(node.children) :
             /\ node.children[i].type = "variable_declarator"
             /\ ExtractVariableDeclarator(node.children[i], keyword) = None
       THEN <<>>
       ELSE Concat([i \in 1..Len(node.children) |->
                      IF node.children[i].type = "variable_declarator"
                      THEN ExtractVariableDeclarator(node.children[i], keyword)
                      ELSE <<>>])

\* TypeScriptExtractor._extract_lexical_declaration
ExtractLexicalDeclaration(node) ==
    LET kws == {i \in 1..Len(node.children) : node.children[i].type \in {"const", "let", "var"}}
        keyword == IF kws = {} THEN "const"
                   ELSE node.children[CHOOSE i \in kws : \A j \in kws : i <= j].type
    IN Concat([i \in 1..Len(node.children) |->
                  IF node.children[i].type = "variable_declarator"
                  THEN ExtractVariableDeclarator(node.children[i], keyword)
                  ELSE <<>>])

\* TypeScriptExtractor._extract_enum
ExtractEnum(node) ==
    LET name_node == FindChild(node, "identifier")
        body == FindChild(node, "enum_body")
        member(m) == IF m.type = "enum_member"
                     THEN LET member_name == FindChild(m, "property_identifier")
                          IN IF member_name = None THEN None
                             ELSE Some(GetText(member_name[1]))
                     ELSE None
        members == IF body = None THEN <<>>
                   ELSE Concat([i \in 1..Len(body[1].children) |->
                                   member(body[1].children[i])])
    IN IF name_node = None THEN None
       ELSE Some(ExportedItem("enum", GetText(name_node[1]),
                <<"export enum ">> \o GetText(name_node[1]), members))

\* TypeScriptExtractor._process_export_statement
ProcessExportStatement(node) ==
    LET is_default == HasChild(node, "default")
        items(child) ==
            CASE child.type = "function_declaration" -> ExtractFunction(child, is_default)
              [] child.type = "class_declaration" -> ExtractClass(child, is_default)
              [] child.type = "type_alias_declaration" -> ExtractTypeAlias(child)
              [] child.type = "interface_declaration" -> ExtractInterface(child)
              [] child.type = "lexical_declaration" -> ExtractLexicalDeclaration(child)
              [] child.type = "enum_declaration" -> ExtractEnum(child)
              [] child.type = "function_signature" -> ExtractFunctionSignature(child)
              [] OTHER -> <<>>
    IN Concat([i \in 1..Len(node.children) |-> items(node.children[i])])

\* Faulty variant of ExtractExports: the children are walked last to first.
ExtractExports_Reversed(root) ==
    Concat([i \in 1..Len(root.children) |->
              LET child == root.children[Len(root.children) + 1 - i]
              IN IF child.type = "export_statement"
                 THEN ProcessExportStatement(child)
                 ELSE <<>>])

\* TypeScriptExtractor.extract_exports
ExtractExports(root) ==
    Concat([i \in 1..Len(root.children) |->
              IF root.children[i].type = "export_statement"
              THEN ProcessExportStatement(root.children[i])
              ELSE <<>>])

\* ---------------------------------------------------------------- renderer
\* Faulty variant of FormatExport: no line tells how many members are left out.
FormatExport_NoMarker(export) ==
    IF export.kind \in {"class", "interface", "enum"} /\ export.methods # <<>>
    THEN LET shown == Take(export.methods, MemberLimit)
             method_lines ==
                 Join(<<NL>>, [i \in 1..Len(shown) |-> <<"  ">> \o shown[i]])
         IN export.signature \o <<" {", NL>> \o method_lines \o <<NL, "}">>
    ELSE export.signature

\* SkeletonGenerator._format_export
FormatExport(export) ==
    IF export.kind \in {"class", "interface", "enum"} /\ export.methods # <<>>
    THEN LET shown == Take(export.methods, MemberLimit)
             method_lines ==
                 Join(<<NL>>, [i \in 1..Len(shown) |-> <<"  ">> \o shown[i]])
                 \o (IF Len(export.methods) > MemberLimit
                     THEN <<NL, "  // ... and ",
                            ToString(Len(export.methods) - MemberLimit), " more">>
                     ELSE <<>>)
         IN export.signature \o <<" {", NL>> \o method_lines \o <<NL, "}">>
    ELSE export.signature

\* The project's paths in ascending order of Python's str comparison.
PathOrder == <<"a.ts", "b.ts", "notes.md">>
PathRank(path) == CHOOSE i \in 1..Len(PathOrder) : PathOrder[i] = path

RECURSIVE InsertByPath(_, _)
\* One insertion of a stable sort on key x.path.
InsertByPath(sorted, x) ==
    IF sorted = <<>> THEN <<x>>
    ELSE IF PathRank(x.path) < PathRank(Head(sorted).path)
         THEN <<x>> \o sorted
         ELSE <<Head(sorted)>> \o InsertByPath(Tail(sorted), x)

RECURSIVE SortInto(_, _)
SortInto(sorted, rest) ==
    IF rest = <<>> THEN sorted
    ELSE SortInto(InsertByPath(sorted, Head(rest)), Tail(rest))

\* Faulty variant of SortedByPath: the list is rendered in the order it arrives in.
SortedByPath_Unsorted(file_indices) == file_indices

\* sorted(file_indices, key=lambda x: x.path)
SortedByPath(file_indices) == SortInto(<<>>, file_indices)

\* Faulty variant of FileLines: an entry without exports is not skipped.
FileLines_KeepEmpty(file_index) ==
    <<<<"// ", file_index.path>>>>
    \o [i \in 1..Len(file_index.exports) |-> FormatExport(file_index.exports[i])]
    \o <<<<>>>>

\* The lines one file contributes to _format_indices' list.
FileLines(file_index) ==
    IF file_index.exports = <<>> THEN <<>>
    ELSE <<<<"// ", file_index.path>>>>
         \o [i \in 1..Len(file_index.exports) |-> FormatExport(file_index.exports[i])]
         \o <<<<>>>>

\* SkeletonGenerator._format_indices
FormatIndices(file_indices) ==
    LET ordered == SortedByPath(file_indices)
    IN Join(<<NL>>, Concat([i \in 1..Len(ordered) |-> FileLines(ordered[i])]))

\* SkeletonGenerator._get_fallback_template, cut at {index_content}; the token
\* "[fence]" stands for the three backquotes of a code fence.
TemplateHead ==
    <<"---", NL, "alwaysApply: true", NL, "---", NL, NL,
      "# ", "{project_name}", " Codebase Index", NL, NL, "[fence]", "typescript", NL>>
TemplateTail == <<NL, "[fence]", NL>>

\* SkeletonGenerator._build_content
BuildContent(file_indices) ==
    TemplateHead \o FormatIndices(file_indices) \o TemplateTail

\* ------------------------------------------------------------ the project
\* The paths of the project, relative to project_root.
Paths == {"a.ts", "b.ts", "notes.md"}

\* File names the language dispatcher is tried on, besides the project's.
DispatchPaths ==
    {"a.ts", "C.TS", "types.d.ts", "d.tsx", "D.Tsx", "e.js", "f.mjs", "F.MJS",
     "g.cjs", "h.jsx", "H.JSX", "notes.md", "k.py", "l.ts.bak", "Makefile"}

\* Path(p).suffix: the last dot-separated part of the file name, with its dot,
\* or the empty string.
SuffixTable ==
    ("a.ts" :> ".ts") @@ ("b.ts" :> ".ts") @@ ("notes.md" :> ".md")
    @@ ("C.TS" :> ".TS") @@ ("types.d.ts" :> ".ts") @@ ("d.tsx" :> ".tsx")
    @@ ("D.Tsx" :> ".Tsx") @@ ("e.js" :> ".js") @@ ("f.mjs" :> ".mjs")
    @@ ("F.MJS" :> ".MJS") @@ ("g.cjs" :> ".cjs") @@ ("h.jsx" :> ".jsx")
    @@ ("H.JSX" :> ".JSX") @@ ("k.py" :> ".py") @@ ("l.ts.bak" :> ".bak")
    @@ ("Makefile" :> "")
    @@ (".cursor/rules/file-structure.mdc" :> ".mdc")
    @@ (".cursor/rules/codebase-index.mdc" :> ".mdc")
    @@ (".cursor/rules" :> "")
Suffix(path) == SuffixTable[path]

\* str.lower() on the suffixes above.
LowerTable ==
    (".TS" :> ".ts") @@ (".Tsx" :> ".tsx") @@ (".MJS" :> ".mjs") @@ (".JSX" :> ".jsx")
Lower(text) == IF text \in DOMAIN LowerTable THEN LowerTable[text] ELSE text

\* The files the tool writes and the directory they are in.
StructureFilePath == ".cursor/rules/file-structure.mdc"
IndexFilePath == ".cursor/rules/codebase-index.mdc"
RulesDirectory == ".cursor/rules"

\* Path(p).parts: the project's files lie in its root.
Parts(path) ==
    CASE path = StructureFilePath -> {".cursor", "rules", "file-structure.mdc"}
      [] path = IndexFilePath -> {".cursor", "rules", "codebase-index.mdc"}
      [] path = RulesDirectory -> {".cursor", "rules"}
      [] OTHER -> {path}

\* Config.should_ignore under the default configuration: get_ignores always
\* adds the structure file, and no path of the project lies under an ignored
\* name.
ShouldIgnore(path) == path = StructureFilePath

\* Source texts, each given by the tree the parser returns for it.
\*   "add"    export function add(a: number, b: number): number { return a+b; }
\*   "plain"  const x = 1;
\*   "broken" export function ok() {}  followed by the line  export function (
\*   "binary" bytes whose decoding raises inside the try block of _index_file
\*   "text"   a file that is no source file
Sources == {"add", "plain", "broken", "binary"}
Absent == "Absent"
\* What a path of the project may hold when `twiggy run` starts: the sources
\* are there or not, the notes are there.
Contents(path) == IF Suffix(path) = ".ts" THEN Sources \cup {Absent} ELSE {"text"}
\* What a write to a path of the project may put there while it runs.
Edits(path) == IF Suffix(path) = ".ts" THEN {"add", "broken"} ELSE {"text"}

TreeAdd ==
    Node("program", <<>>, <<
      Node("export_statement", <<>>, <<
        Leaf("export", <<"export">>),
        Node("function_declaration", <<>>, <<
          Leaf("function", <<"function">>),
          Leaf("identifier", <<"add">>),
          Leaf("formal_parameters", <<"(a: number, b: number)">>),
          Leaf("type_annotation", <<": number">>),
          Leaf("statement_block", <<"{ return a+b; }">>) >>) >>) >>)

\* export interface Foo { bar: string; baz?(x: number): void; }
TreeFoo ==
    Node("program", <<>>, <<
      Node("export_statement", <<>>, <<
        Leaf("export", <<"export">>),
        Node("interface_declaration", <<>>, <<
          Leaf("interface", <<"interface">>),
          Leaf("type_identifier", <<"Foo">>),
          Node("interface_body", <<>>, <<
            Leaf("{", <<"{">>),
            Node("property_signature", <<>>, <<
              Leaf("property_identifier", <<"bar">>),
              Leaf("type_annotation", <<": string">>) >>),
            Leaf(";", <<";">>),
            Node("method_signature", <<>>, <<
              Leaf("property_identifier", <<"baz">>),
              Leaf("?", <<"?">>),
              Leaf("formal_parameters", <<"(x: number)">>),
              Leaf("type_annotation", <<": void">>) >>),
            Leaf(";", <<";">>),
            Leaf("}", <<"}">>) >>) >>) >>) >>)

TreePlain ==
    Node("program", <<>>, <<
      Node("lexical_declaration", <<>>, <<
        Leaf("const", <<"const">>),
        Node("variable_declarator", <<>>, <<
          Leaf("identifier", <<"x">>),
          Leaf("=", <<"=">>),
          Leaf("number", <<"1">>) >>) >>) >>)

\* The parser recovers from the syntax error: the tree holds the export
\* statement it could parse and an ERROR node for the rest.
TreeBroken ==
    Node("program", <<>>, <<
      Node("export_statement", <<>>, <<
        Leaf("export", <<"export">>),
        Node("function_declaration", <<>>, <<
          Leaf("function", <<"function">>),
          Leaf("identifier", <<"ok">>),
          Leaf("formal_parameters", <<"()">>),
          Leaf("statement_block", <<"{}">>) >>) >>),
      Node("ERROR", <<>>, <<
        Leaf("export", <<"export">>),
        Leaf("function", <<"function">>),
        Leaf("(", <<"(">>) >>) >>)

\* parser.parse(source): the tree, and whether the source has a syntax error
\* (tree.root_node.has_error).
Parse(src) ==
    CASE src = "add" -> [root |-> TreeAdd, has_error |-> FALSE]
      [] src = "plain" -> [root |-> TreePlain, has_error |-> FALSE]
      [] src = "broken" -> [root |-> TreeBroken, has_error |-> TRUE]
      [] src = "text" ->
           [root |-> Node("program", <<>>, <<Leaf("ERROR", <<"notes">>)>>),
            has_error |-> TRUE]

\* Whether open/read/parse/extract of the file raises: the file is gone, or
\* its bytes cannot be decoded.
Raises(content) == content \in {Absent, "binary"}

\* ----------------------------------------------------------------- indexer
\* The ext_map of TreeSitterParser.get_language_for_file.
ExtMap ==
    (".ts" :> "typescript") @@ (".tsx" :> "tsx") @@ (".js" :> "javascript")
    @@ (".jsx" :> "jsx") @@ (".mjs" :> "javascript") @@ (".cjs" :> "javascript")

\* Faulty variant of GetLanguageForFile: the suffix is looked up as it is
\* written.
GetLanguageForFile_CaseSensitive(path) ==
    LET ext == Suffix(path)
    IN IF ext \in DOMAIN ExtMap THEN Some(ExtMap[ext]) ELSE None

\* TreeSitterParser.get_language_for_file
GetLanguageForFile(path) ==
    LET ext == Lower(Suffix(path))
    IN IF ext \in DOMAIN ExtMap THEN Some(ExtMap[ext]) ELSE None

\* Config.should_index_file under the default configuration.
ShouldIndexFile(path) == ~ShouldIgnore(path)

FileIndex(path, exports) == [path |-> path, exports |-> exports]

\* CodebaseIndexer._index_file on a file the parser returned the tree for.
IndexParsed(path, root) ==
    IF GetLanguageForFile(path) = None THEN None
    ELSE Some(FileIndex(path, ExtractExports(root)))

\* CodebaseIndexer._index_file on a file with the given content.
IndexFile(path, content) ==
    IF GetLanguageForFile(path) = None THEN None
    ELSE IF Raises(content) THEN None
    ELSE IndexParsed(path, Parse(content).root)

\* Faulty variant of AppendIndex: an entry without exports is kept.
AppendIndex_KeepEmpty(list, index) ==
    IF index # None THEN Append(list, index[1]) ELSE list

\* One turn of the loop of CodebaseIndexer._index_all_files.
AppendIndex(list, index) ==
    IF index # None /\ index[1].exports # <<>>
    THEN Append(list, index[1])
    ELSE list

\* The extensions of CodebaseIndexer._find_indexable_files.
IndexableExtensions == {".ts", ".tsx", ".js", ".jsx", ".mjs", ".cjs"}

\* The files _find_indexable_files finds in a filesystem.
Indexable(files) ==
    {p \in Paths : /\ files[p] # Absent
                   /\ Suffix(p) \in IndexableExtensions
                   /\ ShouldIndexFile(p)}

RECURSIVE Orders(_)
\* The orders in which rglob may list a set of files.
Orders(S) ==
    IF S = {} THEN {<<>>}
    ELSE UNION {{<<x>> \o t : t \in Orders(S \ {x})} : x \in S}

\* The directory tree DirectoryScanner.scan_directory reports.
ScanDirectory(files) == {p \in Paths : files[p] # Absent /\ ~ShouldIgnore(p)}

\* ------------------------------------------------------------------- state
VARIABLES
    fs,                     \* the project's files: path -> content or Absent
    artifact,               \* .cursor/rules/codebase-index.mdc: None or Some(text)
    structure_file,         \* .cursor/rules/file-structure.mdc: None or Some(tree)
    pc,                     \* where the main thread of `twiggy run` is
    todo,                   \* _index_all_files: the files still to index
    indices,                \* _index_all_files: the list built so far
    file_indices,           \* the list generate last rendered for a write
    queue,                  \* the observer's event queue
    handling,               \* the event the observer thread is handling, or None
    last_structure_update,  \* CursorContextHandler.last_structure_update
    last_index_update,      \* CursorContextHandler.last_index_update
    now,                    \* time.time()
    delivered,              \* events put on the queue since the observer started
    dispatched,             \* events taken from the queue since the observer started
    index_pending,          \* update_index returned early since the last recomputation
    written,                \* the content last passed to f.write, or None
    rerendered,             \* the last generate rendered the same entries as the one before
    changes,                \* filesystem changes so far
    report,                 \* what the last index run printed when it ended
    tree,                   \* the tree parser.parse returned for the file at hand, or None
    writable                \* whether files can be written in .cursor/rules

vars == <<fs, artifact, structure_file, pc, todo, indices, file_indices, queue,
          handling, last_structure_update, last_index_update, now, delivered,
          dispatched, index_pending, written, rerendered, changes, report, tree, writable>>

run_vars == <<todo, indices, file_indices, artifact, written, rerendered>>
handler_vars == <<last_structure_update, last_index_update, index_pending>>
observer_vars == <<queue, handling, delivered, dispatched>>

Init ==
    /\ fs \in [Paths -> Sources \cup {"text", Absent}]
    /\ \A p \in Paths : fs[p] \in Contents(p)
    /\ artifact = None
    /\ structure_file = None
    /\ pc = "structure"
    /\ todo = <<>>
    /\ indices = <<>>
    /\ file_indices = <<>>
    /\ queue = <<>>
    /\ handling = None
    /\ last_structure_update = 0
    /\ last_index_update = 0
    /\ now = UpdateDelay
    /\ delivered = 0
    /\ dispatched = 0
    /\ index_pending = FALSE
    /\ written = None
    /\ rerendered = FALSE
    /\ changes = 0
    /\ report = "none"
    /\ tree = None
    /\ writable = TRUE

\* ------------------------------------------------------------- environment
Event(kind, src_path, dest_path, seq) ==
    [kind |-> kind, src_path |-> src_path, dest_path |-> dest_path,
     is_directory |-> FALSE, seq |-> seq]

\* Faulty variant of ObserverRunning: start() sets the observer up before it generates
\* the initial outputs.
ObserverRunning_BeforeInitialOutputs == TRUE

\* FileWatcher.start: the observer is started after the initial outputs are
\* generated; _run_watcher then sleeps while the observer thread runs.
ObserverRunning == pc = "watching"

\* The observer reports a change while it runs.
Notify(kind, src_path, dest_path) ==
    IF ObserverRunning
    THEN /\ queue' = Append(queue, Event(kind, src_path, dest_path, delivered + 1))
         /\ delivered' = delivered + 1
         /\ UNCHANGED <<handling, dispatched>>
    ELSE UNCHANGED observer_vars

env_frame == <<artifact, structure_file, pc, todo, indices, file_indices,
               last_structure_update, last_index_update, now, index_pending,
               written, rerendered, report, tree, writable>>

CreateFile ==
    /\ changes < MaxChanges
    /\ \E p \in Paths : \E c \in Edits(p) :
         /\ fs[p] = Absent
         /\ fs' = [fs EXCEPT ![p] = c]
         /\ Notify("created", p, "")
    /\ changes' = changes + 1
    /\ UNCHANGED env_frame

ModifyFile ==
    /\ changes < MaxChanges
    /\ \E p \in Paths : \E c \in Edits(p) :
         /\ fs[p] # Absent
         /\ fs' = [fs EXCEPT ![p] = c]
         /\ Notify("modified", p, "")
    /\ changes' = changes + 1
    /\ UNCHANGED env_frame

DeleteFile ==
    /\ changes < MaxChanges
    /\ \E p \in Paths :
         /\ fs[p] # Absent
         /\ fs' = [fs EXCEPT ![p] = Absent]
         /\ Notify("deleted", p, "")
    /\ changes' = changes + 1
    /\ UNCHANGED env_frame

MoveFile ==
    /\ changes < MaxChanges
    /\ \E s \in Paths : \E d \in Paths \ {s} :
         /\ fs[s] # Absent
         /\ fs[d] = Absent
         /\ fs' = [fs EXCEPT ![s] = Absent, ![d] = fs[s]]
         /\ Notify("moved", s, d)
    /\ changes' = changes + 1
    /\ UNCHANGED env_frame

Tick ==
    /\ now < MaxTime
    /\ now' = now + 1
    /\ UNCHANGED <<fs, artifact, structure_file, pc, todo, indices, file_indices,
                   queue, handling, last_structure_update, last_index_update,
                   delivered, dispatched, index_pending, written, rerendered,
                   changes, report, tree, writable>>

\* -------------------------------------------------------------- main thread
main_frame == <<fs, queue, handling, delivered, dispatched, now, changes, tree, writable>>

\* FileWatcher._generate_initial_outputs: scanner.scan_and_generate()
InitialStructure ==
    /\ pc = "structure"
    /\ structure_file' = Some(ScanDirectory(fs))
    /\ pc' = "index"
    /\ UNCHANGED <<main_frame, run_vars, handler_vars, report>>

\* CodebaseIndexer._index_all_files, entering the loop: _find_indexable_files
FindIndexableFiles ==
    /\ pc = "index"
    /\ todo' \in Orders(Indexable(fs))
    /\ indices' = <<>>
    /\ pc' = "indexing"
    /\ UNCHANGED <<main_frame, file_indices, artifact, written, rerendered,
                   structure_file, handler_vars, report>>

\* CodebaseIndexer._index_all_files, one turn of the loop
IndexNextFile ==
    /\ pc = "indexing"
    /\ todo # <<>>
    /\ indices' = AppendIndex(indices, IndexFile(Head(todo), fs[Head(todo)]))
    /\ todo' = Tail(todo)
    /\ UNCHANGED <<main_frame, pc, file_indices, artifact, written, rerendered,
                   structure_file, handler_vars, report>>

\* What a failed f.write may leave in the file that open(..., 'w') emptied.
Truncations(content) == {<<>>, Take(content, Len(content) \div 2)}

\* SkeletonGenerator.generate on the list, with the outcome of its I/O:
\*   "ok"          the content is written
\*   "open_fails"  mkdir or open raises: the file is not touched
\*   "write_fails" open has emptied the file, and f.write or the close raises
GenerateFile(list, outcome) ==
    LET content == BuildContent(list)
    IN CASE outcome = "ok" ->
              /\ artifact' = Some(content)
              /\ written' = Some(content)
              /\ file_indices' = list
              /\ rerendered' = (written # None /\ Range(list) = Range(file_indices))
         [] outcome = "open_fails" ->
              /\ rerendered' = FALSE
              /\ UNCHANGED <<artifact, written, file_indices>>
         [] outcome = "write_fails" ->
              /\ artifact' \in {Some(t) : t \in Truncations(content)}
              /\ written' = Some(content)
              /\ file_indices' = list
              /\ rerendered' = FALSE

IOOutcomes == {"ok", "open_fails", "write_fails"}

\* Faulty variant of LoopFinished: generate is called from inside the loop.
LoopFinished_Early == TRUE

\* index_and_generate calls generate with what _index_all_files returns: the
\* loop over the files has ended.
LoopFinished == todo = <<>>

\* Faulty variant of Propagates: generate swallows what its I/O raises.
Propagates_Swallowed(outcome) == FALSE

\* Whether generate, and index_and_generate around it, raise to the caller:
\* neither has a try block, so every exception of the I/O leaves them.
Propagates(outcome) == outcome # "ok"

\* CodebaseIndexer.index_and_generate, after the loop: generator.generate(...).
\* An exception leaves start() and _start_file_watcher prints "Error: ...":
\* the process ends. Otherwise _generate_initial_outputs prints "Initial
\* codebase index generated".
Generate ==
    /\ pc = "indexing"
    /\ LoopFinished
    /\ \E outcome \in IOOutcomes :
         /\ GenerateFile(indices, outcome)
         /\ pc' = IF Propagates(outcome) THEN "failed" ELSE "setup"
         /\ report' = IF Propagates(outcome) THEN "error" ELSE "generated"
    /\ UNCHANGED <<main_frame, todo, indices, structure_file, handler_vars>>

\* FileWatcher._setup_observer: observer.schedule(...), observer.start()
SetupObserver ==
    /\ pc = "setup"
    /\ pc' = "watching"
    /\ queue' = <<>>
    /\ delivered' = 0
    /\ dispatched' = 0
    /\ UNCHANGED <<fs, handling, now, changes, run_vars, structure_file,
                   handler_vars, report, tree, writable>>

\* ---------------------------------------------------------- observer thread
\* The observer thread takes the events from its queue one by one, oldest
\* first, and calls the handler scheduled in _setup_observer for each.
TakeEvent(q) == [event |-> Head(q), rest |-> Tail(q)]

Dispatch ==
    /\ ObserverRunning
    /\ handling = None
    /\ queue # <<>>
    /\ handling' = Some(TakeEvent(queue).event)
    /\ queue' = TakeEvent(queue).rest
    /\ dispatched' = dispatched + 1
    /\ UNCHANGED <<fs, delivered, now, changes, pc, run_vars, structure_file,
                   handler_vars, report, tree, writable>>

\* CursorContextHandler._is_temporary_file: no path of the project is one.
IsTemporaryFile(path) == FALSE

\* Faulty variant of UnderCursor: the test is left out.
UnderCursor_Unchecked(path) == FALSE

\* '.cursor' in path.parts
UnderCursor(path) == ".cursor" \in Parts(path)

\* CursorContextHandler.should_trigger_structure_update
ShouldTriggerStructureUpdate(path) ==
    ~ShouldIgnore(path) /\ ~UnderCursor(path) /\ ~IsTemporaryFile(path)

\* CursorContextHandler.should_trigger_index_update, indexing enabled
ShouldTriggerIndexUpdate(path) ==
    Lower(Suffix(path)) \in IndexableExtensions /\ ShouldIndexFile(path)

\* Whether on_created / on_deleted / on_moved / on_modified calls
\* update_structure for the event.
CallsUpdateStructure(e) ==
    CASE e.kind \in {"created", "deleted"} -> ShouldTriggerStructureUpdate(e.src_path)
      [] e.kind = "moved" -> \/ ShouldTriggerStructureUpdate(e.src_path)
                             \/ ShouldTriggerStructureUpdate(e.dest_path)
      [] e.kind = "modified" ->
           e.is_directory /\ ShouldTriggerStructureUpdate(e.src_path)

\* Whether the handler calls update_index for the event.
CallsUpdateIndex(e) ==
    CASE e.kind \in {"created", "deleted", "modified"} ->
           ~e.is_directory /\ ShouldTriggerIndexUpdate(e.src_path)
      [] e.kind = "moved" -> \/ ShouldTriggerIndexUpdate(e.src_path)
                             \/ ShouldTriggerIndexUpdate(e.dest_path)

\* Faulty variant of DebouncePasses: the two updates share one window.
DebouncePasses_Shared(last_update) ==
    /\ ~(now - last_structure_update < UpdateDelay)
    /\ ~(now - last_index_update < UpdateDelay)

\* Faulty variant of DebouncePasses: every call goes on.
DebouncePasses_Always(last_update) == TRUE

\* The debounce test of update_structure and update_index: the call goes on
\* unless it comes less than update_delay after the last one that did.
DebouncePasses(last_update) == ~(now - last_update < UpdateDelay)

\* What the observer, which watches the project root recursively, reports of
\* a write of scan_and_generate to the structure file: the file was created
\* or modified, and the directory it is in was modified.
OwnWriteReports(existed, seq) ==
    <<Event(IF existed THEN "modified" ELSE "created", StructureFilePath, "", seq),
      [Event("modified", RulesDirectory, "", seq + 1) EXCEPT !.is_directory = TRUE]>>

\* CursorContextHandler.update_structure: the timestamp is set before the try
\* block; open raises PermissionError when the file cannot be written, and
\* `except Exception` prints "Error updating structure: ...".
UpdateStructure ==
    IF DebouncePasses(last_structure_update)
    THEN /\ last_structure_update' = now
         /\ IF writable
            THEN /\ structure_file' = Some(ScanDirectory(fs))
                 /\ queue' = queue \o OwnWriteReports(structure_file # None, delivered + 1)
                 /\ delivered' = delivered + 2
            ELSE UNCHANGED <<structure_file, queue, delivered>>
    ELSE UNCHANGED <<last_structure_update, structure_file, queue, delivered>>

\* The parameters of CodebaseIndexer.index_and_generate besides self, and the
\* keyword arguments update_index passes to it.
IndexAndGenerateParameters == {}
UpdateIndexKeywords == {"changed_path", "event_type", "src_path"}
\* Python raises TypeError for a keyword argument the callee does not declare.
CallRaisesTypeError == ~(UpdateIndexKeywords \subseteq IndexAndGenerateParameters)

RECURSIVE IndexAllFiles(_, _, _)
\* CodebaseIndexer._index_all_files over the files in the given order.
IndexAllFiles(files, order, acc) ==
    IF order = <<>> THEN acc
    ELSE IndexAllFiles(files, Tail(order),
                       AppendIndex(acc, IndexFile(Head(order), files[Head(order)])))

\* CursorContextHandler.update_index: the call of index_and_generate inside
\* the try block; `except Exception` swallows what it raises and prints
\* "Error updating index: ...", and "Updated index" is printed otherwise.
UpdateIndex ==
    IF DebouncePasses(last_index_update)
    THEN /\ last_index_update' = now
         /\ index_pending' = FALSE
         /\ IF CallRaisesTypeError
            THEN /\ report' = "update_error"
                 /\ UNCHANGED <<artifact, written, file_indices, rerendered>>
            ELSE \E order \in Orders(Indexable(fs)) : \E outcome \in IOOutcomes :
                    /\ writable \/ outcome = "open_fails"
                    /\ GenerateFile(IndexAllFiles(fs, order, <<>>), outcome)
                    /\ report' = IF Propagates(outcome) THEN "update_error"
                                  ELSE "updated"
    ELSE /\ index_pending' = TRUE
         /\ UNCHANGED <<last_index_update, artifact, written, file_indices,
                        rerendered, report>>

\* Faulty variant of Caught: the handlers have no except clause.
Caught_Nothing(exception) == FALSE

\* The exceptions the recomputations raise here, and `except Exception` in
\* update_structure and update_index: both are subclasses of Exception.
ExceptionClasses == {"TypeError", "PermissionError"}
Caught(exception) == exception \in ExceptionClasses

\* Whether the recomputation update_structure, or update_index, starts for an
\* event raises.
StructureRaises(e) ==
    CallsUpdateStructure(e) /\ DebouncePasses(last_structure_update) /\ ~writable
IndexRaises(e) ==
    CallsUpdateIndex(e) /\ DebouncePasses(last_index_update) /\ CallRaisesTypeError

\* on_created, on_deleted, on_moved or on_modified, from entry to return. An
\* exception that left a handler would end the observer thread.
Handle ==
    /\ handling # None
    /\ IF CallsUpdateStructure(handling[1])
       THEN UpdateStructure
       ELSE UNCHANGED <<last_structure_update, structure_file, queue, delivered>>
    /\ IF CallsUpdateIndex(handling[1])
       THEN UpdateIndex
       ELSE UNCHANGED <<last_index_update, index_pending, artifact, written,
                        file_indices, rerendered, report>>
    /\ handling' = None
    /\ pc' = IF \/ StructureRaises(handling[1]) /\ ~Caught("PermissionError")
                \/ IndexRaises(handling[1]) /\ ~Caught("TypeError")
             THEN "failed"
             ELSE pc
    /\ UNCHANGED <<fs, dispatched, now, changes, todo, indices, tree, writable>>

\* ------------------------------------------------------------ specification
Next ==
    \/ CreateFile
    \/ ModifyFile
    \/ DeleteFile
    \/ MoveFile
    \/ Tick
    \/ InitialStructure
    \/ FindIndexableFiles
    \/ IndexNextFile
    \/ Generate
    \/ SetupObserver
    \/ Dispatch
    \/ Handle

Spec == Init /\ [][Next]_vars

\* ------------------------------------------- the watcher and its own files
\* Something other than the tool deletes one of the files the tool wrote.
DeleteOwnFile ==
    /\ changes < MaxChanges
    /\ \/ /\ structure_file # None
          /\ structure_file' = None
          /\ Notify("deleted", StructureFilePath, "")
          /\ UNCHANGED <<artifact, written>>
       \/ /\ artifact # None
          /\ artifact' = None
          /\ written' = None
          /\ Notify("deleted", IndexFilePath, "")
          /\ UNCHANGED structure_file
    /\ changes' = changes + 1
    /\ UNCHANGED <<fs, pc, todo, indices, file_indices, last_structure_update,
                   last_index_update, now, index_pending, rerendered, report, tree, writable>>

\* While the watcher runs, .cursor/rules is made read-only, or writable again
\* (chmod); the observer reports the directory as modified.
ChangeMode ==
    /\ pc = "watching"
    /\ changes < MaxChanges
    /\ writable' = ~writable
    /\ queue' = Append(queue, [Event("modified", RulesDirectory, "", delivered + 1)
                                 EXCEPT !.is_directory = TRUE])
    /\ delivered' = delivered + 1
    /\ changes' = changes + 1
    /\ UNCHANGED <<fs, artifact, structure_file, pc, todo, indices, file_indices,
                   handling, last_structure_update, last_index_update, now,
                   dispatched, index_pending, written, rerendered, report, tree>>

\* A project with one source file and the notes when `twiggy run` starts.
LoopInit ==
    /\ Init
    /\ fs["a.ts"] = "add"
    /\ fs["b.ts"] = Absent

LoopNext ==
    \/ Next
    \/ DeleteOwnFile
    \/ ChangeMode

LoopSpec == LoopInit /\ [][LoopNext]_vars

\* The observer thread is a thread of its own: it takes an event whenever its
\* queue holds one, and a handler it called returns.
LoopFairSpec == LoopSpec /\ WF_vars(Dispatch) /\ WF_vars(Handle)

\* ------------------------------------------------- `twiggy run`, again
\* What may be put at a path while no `twiggy run` runs: an edit, bytes that
\* cannot be decoded, or nothing (the file is deleted).
Rewrites(path) ==
    Edits(path) \cup (IF Suffix(path) = ".ts" THEN {"binary", Absent} ELSE {})

\* The project changes between two runs of `twiggy run`.
EditBetweenRuns ==
    /\ pc \in {"setup", "failed"}
    /\ changes < MaxChanges
    /\ \E p \in Paths : \E c \in Rewrites(p) :
         /\ c # fs[p]
         /\ fs' = [fs EXCEPT ![p] = c]
    /\ changes' = changes + 1
    /\ UNCHANGED <<env_frame, observer_vars>>

\* `twiggy run` is started again after the process before it ended (Ctrl+C or
\* the error _start_file_watcher printed): a new FileWatcher, a new
\* CodebaseIndexer; the files on disk are what the last run left.
Rerun ==
    /\ pc \in {"setup", "failed"}
    /\ pc' = "structure"
    /\ todo' = <<>>
    /\ indices' = <<>>
    /\ report' = "none"
    /\ UNCHANGED <<main_frame, file_indices, artifact, written, rerendered,
                   structure_file, handler_vars>>

RunsNext ==
    \/ InitialStructure
    \/ FindIndexableFiles
    \/ IndexNextFile
    \/ Generate
    \/ EditBetweenRuns
    \/ Rerun

RunsSpec == Init /\ [][RunsNext]_vars

\* ------------------------------------------------- the renderer on its own
\* Longest list of FileIndex entries handed to the renderer.
MaxEntries == 2

\* The export lists of the entries: of the two sources above, and none.
EntryExports == {ExtractExports(TreeAdd), ExtractExports(TreeFoo), <<>>}

RECURSIVE EntryLists(_, _)
\* The lists of at most n entries with distinct paths among S.
EntryLists(S, n) ==
    IF n = 0 \/ S = {} THEN {<<>>}
    ELSE {<<>>} \cup
         UNION {{<<FileIndex(p, x)>> \o t : t \in EntryLists(S \ {p}, n - 1)} :
                    <<p, x>> \in S \X EntryExports}

\* The generator alone: none of the watcher runs, and a list of entries is
\* at hand as _index_all_files may have returned it.
RenderInit ==
    /\ indices \in EntryLists(Paths, MaxEntries)
    /\ fs = [p \in Paths |-> Absent]
    /\ artifact = None
    /\ structure_file = None
    /\ pc = "render"
    /\ todo = <<>>
    /\ file_indices = <<>>
    /\ queue = <<>>
    /\ handling = None
    /\ last_structure_update = 0
    /\ last_index_update = 0
    /\ now = UpdateDelay
    /\ delivered = 0
    /\ dispatched = 0
    /\ index_pending = FALSE
    /\ written = None
    /\ rerendered = FALSE
    /\ changes = 0
    /\ report = "none"
    /\ tree = None
    /\ writable = TRUE

render_frame == <<fs, structure_file, pc, todo, queue, handling,
                  last_structure_update, last_index_update, now, delivered,
                  dispatched, index_pending, changes, report, tree, writable>>

\* SkeletonGenerator.generate on the list at hand.
Regenerate ==
    /\ pc = "render"
    /\ \E outcome \in IOOutcomes : GenerateFile(indices, outcome)
    /\ UNCHANGED <<render_frame, indices>>

\* The same entries come back from _index_all_files in another order.
Reorder ==
    /\ pc = "render"
    /\ \E order \in Orders(Range(indices)) :
         /\ order # indices
         /\ indices' = order
    /\ UNCHANGED <<render_frame, file_indices, artifact, written, rerendered>>

RenderNext == Regenerate \/ Reorder

RenderSpec == RenderInit /\ [][RenderNext]_vars

\* ------------------------------------------------ the extractor on its own
\* Most top-level statements of a program handed to the extractor.
MaxStatements == 2

\* A top-level `export <declaration>` as the parser returns it.
Exported(declaration) ==
    Node("export_statement", <<>>, <<Leaf("export", <<"export">>), declaration>>)

\* export function f(a: number): string {}
StmtFunction ==
    Exported(Node("function_declaration", <<>>, <<
      Leaf("function", <<"function">>),
      Leaf("identifier", <<"f">>),
      Leaf("formal_parameters", <<"(a: number)">>),
      Leaf("type_annotation", <<": string">>),
      Leaf("statement_block", <<"{}">>) >>))

\* export function g(): void;
StmtFunctionSignature ==
    Exported(Node("function_signature", <<>>, <<
      Leaf("function", <<"function">>),
      Leaf("identifier", <<"g">>),
      Leaf("formal_parameters", <<"()">>),
      Leaf("type_annotation", <<": void">>),
      Leaf(";", <<";">>) >>))

\* export function m(     with its parameters on lines of their own:
\*   a: number,
\*   b: number
\* ): number {}
StmtFunctionMultiline ==
    Exported(Node("function_declaration", <<>>, <<
      Leaf("function", <<"function">>),
      Leaf("identifier", <<"m">>),
      Leaf("formal_parameters", <<"(", NL, "  a: number,", NL, "  b: number", NL, ")">>),
      Leaf("type_annotation", <<": number">>),
      Leaf("statement_block", <<"{}">>) >>))

\* export class K extends B { run(): void {} private hide() {} size: number; }
StmtClass ==
    Exported(Node("class_declaration", <<>>, <<
      Leaf("class", <<"class">>),
      Leaf("type_identifier", <<"K">>),
      Leaf("class_heritage", <<"extends B">>),
      Node("class_body", <<>>, <<
        Leaf("{", <<"{">>),
        Node("method_definition", <<>>, <<
          Leaf("property_identifier", <<"run">>),
          Leaf("formal_parameters", <<"()">>),
          Leaf("type_annotation", <<": void">>),
          Leaf("statement_block", <<"{}">>) >>),
        Node("method_definition", <<>>, <<
          Leaf("accessibility_modifier", <<"private">>),
          Leaf("property_identifier", <<"hide">>),
          Leaf("formal_parameters", <<"()">>),
          Leaf("statement_block", <<"{}">>) >>),
        Node("public_field_definition", <<>>, <<
          Leaf("property_identifier", <<"size">>),
          Leaf("type_annotation", <<": number">>) >>),
        Leaf("}", <<"}">>) >>) >>))

\* export interface I { a: string; }
StmtInterface ==
    Exported(Node("interface_declaration", <<>>, <<
      Leaf("interface", <<"interface">>),
      Leaf("type_identifier", <<"I">>),
      Node("interface_body", <<>>, <<
        Leaf("{", <<"{">>),
        Node("property_signature", <<>>, <<
          Leaf("property_identifier", <<"a">>),
          Leaf("type_annotation", <<": string">>) >>),
        Leaf(";", <<";">>),
        Leaf("}", <<"}">>) >>) >>))

\* export type T = string;
StmtTypeAlias ==
    Exported(Node("type_alias_declaration", <<>>, <<
      Leaf("type", <<"type">>),
      Leaf("type_identifier", <<"T">>),
      Leaf("=", <<"=">>),
      Leaf("predefined_type", <<"s", "t", "r", "i", "n", "g">>),
      Leaf(";", <<";">>) >>))

\* export enum E { A, B }
StmtEnum ==
    Exported(Node("enum_declaration", <<>>, <<
      Leaf("enum", <<"enum">>),
      Leaf("identifier", <<"E">>),
      Node("enum_body", <<>>, <<
        Leaf("{", <<"{">>),
        Node("enum_member", <<>>, <<Leaf("property_identifier", <<"A">>)>>),
        Leaf(",", <<",">>),
        Node("enum_member", <<>>, <<Leaf("property_identifier", <<"B">>)>>),
        Leaf("}", <<"}">>) >>) >>))

\* export const c = 1, d = (x) => x;
StmtConst ==
    Exported(Node("lexical_declaration", <<>>, <<
      Leaf("const", <<"const">>),
      Node("variable_declarator", <<>>, <<
        Leaf("identifier", <<"c">>),
        Leaf("=", <<"=">>),
        Leaf("number", <<"1">>) >>),
      Leaf(",", <<",">>),
      Node("variable_declarator", <<>>, <<
        Leaf("identifier", <<"d">>),
        Leaf("=", <<"=">>),
        Node("arrow_function", <<>>, <<
          Leaf("formal_parameters", <<"(x)">>),
          Leaf("=>", <<"=>">>),
          Leaf("identifier", <<"x">>) >>) >>),
      Leaf(";", <<";">>) >>))

\* export let l: number;
StmtLet ==
    Exported(Node("lexical_declaration", <<>>, <<
      Leaf("let", <<"let">>),
      Node("variable_declarator", <<>>, <<
        Leaf("identifier", <<"l">>),
        Leaf("type_annotation", <<": number">>) >>),
      Leaf(";", <<";">>) >>))

\* export var v = 1;      The grammar gives a `var` statement the node type
\* variable_declaration; lexical_declaration is the type of let and const.
StmtVar ==
    Exported(Node("variable_declaration", <<>>, <<
      Leaf("var", <<"var">>),
      Node("variable_declarator", <<>>, <<
        Leaf("identifier", <<"v">>),
        Leaf("=", <<"=">>),
        Leaf("number", <<"1">>) >>),
      Leaf(";", <<";">>) >>))

\* function h() {}          (not exported)
StmtPlainFunction ==
    Node("function_declaration", <<>>, <<
      Leaf("function", <<"function">>),
      Leaf("identifier", <<"h">>),
      Leaf("formal_parameters", <<"()">>),
      Leaf("statement_block", <<"{}">>) >>)

\* namespace N { export function n() {} }     (the export is nested)
StmtNested ==
    Node("expression_statement", <<>>, <<
      Node("internal_module", <<>>, <<
        Leaf("namespace", <<"namespace">>),
        Leaf("identifier", <<"N">>),
        Node("statement_block", <<>>, <<
          Leaf("{", <<"{">>),
          Exported(Node("function_declaration", <<>>, <<
            Leaf("function", <<"function">>),
            Leaf("identifier", <<"n">>),
            Leaf("formal_parameters", <<"()">>),
            Leaf("statement_block", <<"{}">>) >>)),
          Leaf("}", <<"}">>) >>) >>) >>)

\* export const [u] = [1], r = 1;      (the first declarator is a pattern)
StmtDestructuring ==
    Exported(Node("lexical_declaration", <<>>, <<
      Leaf("const", <<"const">>),
      Node("variable_declarator", <<>>, <<
        Node("array_pattern", <<>>, <<
          Leaf("[", <<"[">>),
          Leaf("identifier", <<"u">>),
          Leaf("]", <<"]">>) >>),
        Leaf("=", <<"=">>),
        Leaf("array", <<"[1]">>) >>),
      Leaf(",", <<",">>),
      Node("variable_declarator", <<>>, <<
        Leaf("identifier", <<"r">>),
        Leaf("=", <<"=">>),
        Leaf("number", <<"1">>) >>),
      Leaf(";", <<";">>) >>))

\* export { s, t };
StmtExportClause ==
    Node("export_statement", <<>>, <<
      Leaf("export", <<"export">>),
      Node("export_clause", <<>>, <<
        Leaf("{", <<"{">>),
        Node("export_specifier", <<>>, <<Leaf("identifier", <<"s">>)>>),
        Leaf(",", <<",">>),
        Node("export_specifier", <<>>, <<Leaf("identifier", <<"t">>)>>),
        Leaf("}", <<"}">>) >>),
      Leaf(";", <<";">>) >>)

\* A class declaration whose node holds no name.
StmtNamelessClass ==
    Exported(Node("class_declaration", <<>>, <<
      Leaf("class", <<"class">>),
      Node("class_body", <<>>, <<
        Leaf("{", <<"{">>),
        Node("method_definition", <<>>, <<
          Leaf("property_identifier", <<"lost">>),
          Leaf("formal_parameters", <<"()">>),
          Leaf("statement_block", <<"{}">>) >>),
        Leaf("}", <<"}">>) >>) >>))

\* export default function () {}          (a function expression: no name)
StmtAnonymousDefault ==
    Node("export_statement", <<>>, <<
      Leaf("export", <<"export">>),
      Leaf("default", <<"default">>),
      Node("function_expression", <<>>, <<
        Leaf("function", <<"function">>),
        Leaf("formal_parameters", <<"()">>),
        Leaf("statement_block", <<"{}">>) >>) >>)

\* The statements programs of several statements are made of.
StatementPool ==
    {StmtFunction, StmtFunctionSignature, StmtFunctionMultiline, StmtClass,
     StmtInterface, StmtTypeAlias, StmtEnum, StmtConst, StmtLet, StmtVar,
     StmtPlainFunction, StmtNested, StmtDestructuring, StmtExportClause,
     StmtAnonymousDefault, StmtNamelessClass}

\* A type expression of n characters, one token each.
TypeText(n) == [i \in 1..n |-> ToString(i % 10)]

\* export type L = <a type expression of n characters>;
StmtLongTypeAlias(n) ==
    Exported(Node("type_alias_declaration", <<>>, <<
      Leaf("type", <<"type">>),
      Leaf("type_identifier", <<"L">>),
      Leaf("=", <<"=">>),
      Leaf("union_type", TypeText(n)),
      Leaf(";", <<";">>) >>))

\* export class W { m1() {} ... mn() {} }
StmtWideClass(n) ==
    Exported(Node("class_declaration", <<>>, <<
      Leaf("class", <<"class">>),
      Leaf("type_identifier", <<"W">>),
      Node("class_body", <<>>,
        [i \in 1..n |->
           Node("method_definition", <<>>, <<
             Leaf("property_identifier", <<"m", ToString(i)>>),
             Leaf("formal_parameters", <<"()">>),
             Leaf("statement_block", <<"{}">>) >>)]) >>))

\* export interface V { p1: string; ... pn: string; }
StmtWideInterface(n) ==
    Exported(Node("interface_declaration", <<>>, <<
      Leaf("interface", <<"interface">>),
      Leaf("type_identifier", <<"V">>),
      Node("interface_body", <<>>,
        [i \in 1..n |->
           Node("property_signature", <<>>, <<
             Leaf("property_identifier", <<"p", ToString(i)>>),
             Leaf("type_annotation", <<": string">>) >>)]) >>))

\* export enum U { A1, ..., An }
StmtWideEnum(n) ==
    Exported(Node("enum_declaration", <<>>, <<
      Leaf("enum", <<"enum">>),
      Leaf("identifier", <<"U">>),
      Node("enum_body", <<>>,
        [i \in 1..n |->
           Node("enum_member", <<>>,
                <<Leaf("property_identifier", <<"A", ToString(i)>>)>>)]) >>))

\* export interface Foo { bar: string; baz?(x: number): void; }
StmtFoo == TreeFoo.children[1]

\* export interface O { opt?: number; bare; }
StmtOptionalProperty ==
    Exported(Node("interface_declaration", <<>>, <<
      Leaf("interface", <<"interface">>),
      Leaf("type_identifier", <<"O">>),
      Node("interface_body", <<>>, <<
        Leaf("{", <<"{">>),
        Node("property_signature", <<>>, <<
          Leaf("property_identifier", <<"opt">>),
          Leaf("?", <<"?">>),
          Leaf("type_annotation", <<": number">>) >>),
        Leaf(";", <<";">>),
        Node("property_signature", <<>>, <<
          Leaf("property_identifier", <<"bare">>) >>),
        Leaf(";", <<";">>),
        Leaf("}", <<"}">>) >>) >>))

\* export const arrow = (a: number): number => a;
StmtArrowTyped ==
    Exported(Node("lexical_declaration", <<>>, <<
      Leaf("const", <<"const">>),
      Node("variable_declarator", <<>>, <<
        Leaf("identifier", <<"arrow">>),
        Leaf("=", <<"=">>),
        Node("arrow_function", <<>>, <<
          Leaf("formal_parameters", <<"(a: number)">>),
          Leaf("type_annotation", <<": number">>),
          Leaf("=>", <<"=>">>),
          Leaf("identifier", <<"a">>) >>) >>),
      Leaf(";", <<";">>) >>))

\* export let inc = x => x;
StmtArrowBare ==
    Exported(Node("lexical_declaration", <<>>, <<
      Leaf("let", <<"let">>),
      Node("variable_declarator", <<>>, <<
        Leaf("identifier", <<"inc">>),
        Leaf("=", <<"=">>),
        Node("arrow_function", <<>>, <<
          Leaf("identifier", <<"x">>),
          Leaf("=>", <<"=>">>),
          Leaf("identifier", <<"x">>) >>) >>),
      Leaf(";", <<";">>) >>))

\* export const fe = function (a: number): number { return a; };
StmtFunctionExpression ==
    Exported(Node("lexical_declaration", <<>>, <<
      Leaf("const", <<"const">>),
      Node("variable_declarator", <<>>, <<
        Leaf("identifier", <<"fe">>),
        Leaf("=", <<"=">>),
        Node("function_expression", <<>>, <<
          Leaf("function", <<"function">>),
          Leaf("formal_parameters", <<"(a: number)">>),
          Leaf("type_annotation", <<": number">>),
          Leaf("statement_block", <<"{ return a; }">>) >>) >>),
      Leaf(";", <<";">>) >>))

\* export const typed: string = "x";
StmtConstTyped ==
    Exported(Node("lexical_declaration", <<>>, <<
      Leaf("const", <<"const">>),
      Node("variable_declarator", <<>>, <<
        Leaf("identifier", <<"typed">>),
        Leaf("type_annotation", <<": string">>),
        Leaf("=", <<"=">>),
        Leaf("string", <<"\"x\"">>) >>),
      Leaf(";", <<";">>) >>))

\* export const { p, q } = obj;
StmtDestructuringAlias ==
    Exported(Node("lexical_declaration", <<>>, <<
      Leaf("const", <<"const">>),
      Node("variable_declarator", <<>>, <<
        Node("object_pattern", <<>>, <<
          Leaf("{", <<"{">>),
          Leaf("shorthand_property_identifier_pattern", <<"p">>),
          Leaf(",", <<",">>),
          Leaf("shorthand_property_identifier_pattern", <<"q">>),
          Leaf("}", <<"}">>) >>),
        Leaf("=", <<"=">>),
        Leaf("identifier", <<"obj">>) >>),
      Leaf(";", <<";">>) >>))

\* export default function dflt(a) {}
StmtDefaultFunction ==
    Node("export_statement", <<>>, <<
      Leaf("export", <<"export">>),
      Leaf("default", <<"default">>),
      Node("function_declaration", <<>>, <<
        Leaf("function", <<"function">>),
        Leaf("identifier", <<"dflt">>),
        Leaf("formal_parameters", <<"(a)">>),
        Leaf("statement_block", <<"{}">>) >>) >>)

\* A function declaration and a function signature whose nodes hold no
\* parameter list.
StmtFunctionNoParams ==
    Exported(Node("function_declaration", <<>>, <<
      Leaf("function", <<"function">>),
      Leaf("identifier", <<"np">>),
      Leaf("statement_block", <<"{}">>) >>))
StmtSignatureNoParams ==
    Exported(Node("function_signature", <<>>, <<
      Leaf("function", <<"function">>),
      Leaf("identifier", <<"sp">>),
      Leaf("type_annotation", <<": void">>) >>))

\* export class M {
\*   static async load(): Promise<void> {}     async run() {}
\*   static make() {}     private secret() {}     name: string;     count;
\* }
\* The grammar puts `static` before `async` in a method definition.
StmtModifiers ==
    Exported(Node("class_declaration", <<>>, <<
      Leaf("class", <<"class">>),
      Leaf("type_identifier", <<"M">>),
      Node("class_body", <<>>, <<
        Leaf("{", <<"{">>),
        Node("method_definition", <<>>, <<
          Leaf("static", <<"static">>),
          Leaf("async", <<"async">>),
          Leaf("property_identifier", <<"load">>),
          Leaf("formal_parameters", <<"()">>),
          Leaf("type_annotation", <<": Promise<void>">>),
          Leaf("statement_block", <<"{}">>) >>),
        Node("method_definition", <<>>, <<
          Leaf("async", <<"async">>),
          Leaf("property_identifier", <<"run">>),
          Leaf("formal_parameters", <<"()">>),
          Leaf("statement_block", <<"{}">>) >>),
        Node("method_definition", <<>>, <<
          Leaf("static", <<"static">>),
          Leaf("property_identifier", <<"make">>),
          Leaf("formal_parameters", <<"()">>),
          Leaf("statement_block", <<"{}">>) >>),
        Node("method_definition", <<>>, <<
          Leaf("accessibility_modifier", <<"private">>),
          Leaf("property_identifier", <<"secret">>),
          Leaf("formal_parameters", <<"()">>),
          Leaf("statement_block", <<"{}">>) >>),
        Node("public_field_definition", <<>>, <<
          Leaf("property_identifier", <<"name">>),
          Leaf("type_annotation", <<": string">>) >>),
        Leaf(";", <<";">>),
        Node("public_field_definition", <<>>, <<
          Leaf("property_identifier", <<"count">>) >>),
        Leaf(";", <<";">>),
        Leaf("}", <<"}">>) >>) >>))

\* The statements that show one form of a declaration each.
DetailStatements ==
    {StmtFoo, StmtOptionalProperty, StmtArrowTyped, StmtArrowBare,
     StmtFunctionExpression, StmtConstTyped, StmtDestructuringAlias,
     StmtDefaultFunction,
     StmtFunctionNoParams, StmtSignatureNoParams, StmtModifiers}

\* Lengths of type expressions and numbers of members around the two limits.
TypeLengths == {99, 100, 101, 150}
MemberCounts == {0, 1, 9, 10, 11, 12}

\* The statements that make a program on their own.
LargeStatements ==
    {StmtLongTypeAlias(n) : n \in TypeLengths}
    \cup {StmtWideClass(n) : n \in MemberCounts}
    \cup {StmtWideInterface(n) : n \in MemberCounts}
    \cup {StmtWideEnum(n) : n \in MemberCounts}

RECURSIVE StatementLists(_)
\* The lists of at most n statements of the pool.
StatementLists(n) ==
    IF n = 0 THEN {<<>>}
    ELSE {<<>>} \cup {<<x>> \o t : x \in StatementPool, t \in StatementLists(n - 1)}

\* tree.root_node of a source file with the given top-level statements.
Program(statements) == Node("program", <<>>, statements)

\* The files _index_file is tried on: the programs under one name, and one
\* program under each of the names.
ExtractInputs ==
    ({"a.ts"} \X ({Program(l) : l \in StatementLists(MaxStatements)}
                  \cup {Program(<<x>>) : x \in LargeStatements \cup DetailStatements}))
    \cup (DispatchPaths \X {Program(<<StmtFunction>>)})

\* The indexer is about to index one file: the parser has returned its tree.
ExtractInit ==
    /\ \E input \in ExtractInputs :
         /\ todo = <<input[1]>>
         /\ tree = Some(input[2])
         /\ writable = TRUE
    /\ fs = [p \in Paths |-> Absent]
    /\ artifact = None
    /\ structure_file = None
    /\ pc = "extract"
    /\ indices = <<>>
    /\ file_indices = <<>>
    /\ queue = <<>>
    /\ handling = None
    /\ last_structure_update = 0
    /\ last_index_update = 0
    /\ now = UpdateDelay
    /\ delivered = 0
    /\ dispatched = 0
    /\ index_pending = FALSE
    /\ written = None
    /\ rerendered = FALSE
    /\ changes = 0
    /\ report = "none"

\* One turn of the loop of _index_all_files on the parsed file, which ends
\* the loop.
IndexParsedFile ==
    /\ pc = "extract"
    /\ indices' = AppendIndex(indices, IndexParsed(Head(todo), tree[1]))
    /\ todo' = Tail(todo)
    /\ pc' = "render"
    /\ UNCHANGED <<main_frame, file_indices, artifact, written, rerendered,
                   structure_file, handler_vars, report>>

ExtractNext == IndexParsedFile \/ Regenerate

ExtractSpec == ExtractInit /\ [][ExtractNext]_vars

\* ------------------------------------------------------------------ claims
\* C1: rendering is idempotent: when generate renders the entries it rendered
\* the time before (in whatever order the list holds them), the text it
\* passes to f.write is the text it passed before.
C1_RenderIdempotent ==
    [][(/\ written # None
        /\ written' # None
        /\ Range(file_indices') = Range(file_indices))
       => written' = written]_vars

\* C1 witness: generate has rendered, for a second time and from a list in
\* another order, two entries that both have exports; the write went through.
C1_Witness ==
    /\ pc = "render"
    /\ rerendered
    /\ Len(file_indices) = 2
    /\ \A i \in 1..2 : file_indices[i].exports # <<>>
    /\ PathRank(file_indices[1].path) > PathRank(file_indices[2].path)
    /\ artifact = written

\* The step in which the handler returns from an event for which it called
\* update_index, and update_index went past its debounce test.
IndexUpdateRan(kinds) ==
    /\ handling # None
    /\ handling' = None
    /\ handling[1].kind \in kinds
    /\ CallsUpdateIndex(handling[1])
    /\ DebouncePasses(last_index_update)

\* The entries with the entry of path removed and, if the file there yields
\* exports, its entry put in.
Upserted(entries, path, files) ==
    LET index == IndexFile(path, files[path])
    IN {x \in entries : x.path # path}
       \cup (IF index # None /\ index[1].exports # <<>> THEN {index[1]} ELSE {})

\* C2: when the handler has dealt with a created or modified event of an
\* indexable path, the Index holds that path's entry as extracted from the
\* file now, and every other entry as before.
C2_IncrementalUpsert ==
    [][IndexUpdateRan({"created", "modified"})
       => Range(file_indices') = Upserted(Range(file_indices), handling[1].src_path, fs)]_vars

\* C3: when the handler has dealt with the deleted event of a file that had an
\* entry, the Index and the artifact no longer hold that entry, and the other
\* entries are as before.
C3_IncrementalDelete ==
    [][(/\ IndexUpdateRan({"deleted"})
        /\ \E x \in Range(file_indices) : x.path = handling[1].src_path)
       => /\ Range(file_indices') =
               {x \in Range(file_indices) : x.path # handling[1].src_path}
          /\ artifact' = Some(BuildContent(file_indices'))]_vars

\* C4: when the handler has dealt with a moved event, the Index holds no entry
\* of the prior path and holds the new path's entry as extracted from the file
\* now.
C4_IncrementalRename ==
    [][IndexUpdateRan({"moved"})
       => /\ Range(file_indices') =
               Upserted({x \in Range(file_indices) : x.path # handling[1].src_path},
                        handling[1].dest_path, fs)
          /\ artifact' = Some(BuildContent(file_indices'))]_vars

\* C5: a notification that update_index drops inside the debounce window leads
\* to a recomputation once the window is over: it never happens that the
\* window has been over for a second, no notification waits in the queue or is
\* being handled, and the dropped notification has started no recomputation.
C5_BurstTriggersLaterPass ==
    ~(/\ index_pending
      /\ handling = None
      /\ queue = <<>>
      /\ now - last_index_update > UpdateDelay)

\* C6: what generate passes to f.write is the rendering of the list a finished
\* run of _index_all_files returned: nothing is written while the loop over the
\* files still has files to index.
C6_OnlyCompleteIndexWritten ==
    written # None
    => /\ todo = <<>>
       /\ pc \notin {"structure", "index", "indexing"}
       /\ written = Some(BuildContent(indices))

\* C6 witness: the cold start has written the rendering of two entries, and
\* the project changed while it ran.
C6_Witness ==
    /\ pc = "setup"
    /\ written # None
    /\ Len(indices) = 2
    /\ changes > 0

\* C7: the artifact is absent (as before the run) or holds the whole content
\* generate rendered, whatever the outcome of the write.
C7_WriteAllOrNothing ==
    artifact = None \/ artifact = Some(BuildContent(file_indices))

\* C8: the handler runs for one event at a time, in the order of delivery, and
\* never while the main thread generates the initial outputs; a handler that
\* has begun returns before the next event is taken.
C8_SerialInOrder ==
    /\ [](handling # None => pc = "watching")
    /\ [][handling' # handling
          => \/ /\ handling = None
                /\ handling'[1].seq = dispatched + 1
                /\ dispatched' = handling'[1].seq
             \/ /\ handling # None
                /\ handling' = None]_vars

\* C8 witness: the second event delivered is being handled after the first
\* was, while a third change has been made or none is left to make.
C8_Witness ==
    /\ handling # None
    /\ handling[1].seq = 2
    /\ delivered = 2

\* The exports the extractor finds in a content that can be read and parsed.
ExportsOf(content) == ExtractExports(Parse(content).root)

\* The files of a filesystem that are eligible, can be read and parsed, and
\* yield at least one export.
Qualifying(files) ==
    {p \in Indexable(files) : ~Raises(files[p]) /\ ExportsOf(files[p]) # <<>>}

Faulty(content) ==
    content # Absent /\ (Raises(content) \/ Parse(content).has_error)

\* C10: after a full run over a project that did not change meanwhile, a faulty
\* file has no entry, and every other file is indexed as it is without it.
C10_FaultIsolation ==
    (pc \in {"setup", "watching", "failed"} /\ changes = 0)
    => /\ \A p \in Paths : Faulty(fs[p]) => \A x \in Range(indices) : x.path # p
       /\ \A p \in Qualifying(fs) :
            ~Faulty(fs[p]) => FileIndex(p, ExportsOf(fs[p])) \in Range(indices)

\* C11: when a full run that writes the artifact finds a file that had an
\* entry in the Index the artifact held, and the file now raises when it is
\* read and extracted, that entry is in the Index the run writes.
C11_LastGoodEntryRetained ==
    [][(pc = "indexing" /\ pc' = "setup")
       => \A x \in Range(file_indices) :
             (fs[x.path] # Absent /\ Raises(fs[x.path]))
             => x \in Range(file_indices')]_vars

\* C12: an index run whose write of the artifact failed is reported as failed:
\* whenever the last index run was reported as succeeded ("Initial codebase
\* index generated" at cold start, "Updated index" from the handler), the
\* artifact holds the whole content that run rendered.
C12_WriteFailureReported ==
    report \in {"generated", "updated"}
    => /\ artifact # None
       /\ artifact = written

\* C12 witness: the write of the cold start failed after open emptied the
\* file, and the run ended with the error _start_file_watcher prints.
C12_Witness ==
    /\ pc = "failed"
    /\ report = "error"
    /\ written # None
    /\ artifact # written

\* The step in which _index_file extracts the parsed file, for a file of a
\* supported language.
Extracted ==
    /\ pc = "extract"
    /\ pc' = "render"
    /\ GetLanguageForFile(Head(todo)) # None

\* The exports of the one file the indexer has indexed.
Emitted == IF indices = <<>> THEN <<>> ELSE indices[1].exports

\* The node types of the declarations of the supported kinds, and of the
\* statements that declare variables.
DeclarationTypes ==
    {"function_declaration", "function_signature", "class_declaration",
     "interface_declaration", "type_alias_declaration", "enum_declaration"}
VariableStatementTypes == {"lexical_declaration", "variable_declaration"}

\* How many declarations of the supported kinds a top-level statement exports:
\* one for each declaration, one for each declarator of const, let or var.
DeclarationCount(statement) ==
    IF statement.type # "export_statement" THEN 0
    ELSE Cardinality({i \in 1..Len(statement.children) :
                         statement.children[i].type \in DeclarationTypes})
         + Cardinality({ij \in (1..Len(statement.children)) \X (1..4) :
              /\ statement.children[ij[1]].type \in VariableStatementTypes
              /\ ij[2] <= Len(statement.children[ij[1]].children)
              /\ statement.children[ij[1]].children[ij[2]].type = "variable_declarator"})

RECURSIVE SumOver(_, _)
\* The sum of count(x) over the elements of a sequence.
SumOver(seq, i) ==
    IF i > Len(seq) THEN 0 ELSE DeclarationCount(seq[i]) + SumOver(seq, i + 1)

\* C13: extract_exports yields as many items as the file has top-level
\* exported declarations of the supported kinds (function, function signature,
\* class, interface, type alias, enum, and each declarator of const, let or
\* var); a declaration that is not exported or is nested yields none.
C13_OneItemPerExportedDeclaration ==
    [][Extracted => Len(Emitted') = SumOver(tree[1].children, 1)]_vars

\* The name of a declaration node: its first identifier or type_identifier.
NameOf(declaration) ==
    TextOr(OrElse(FindChild(declaration, "identifier"),
                  FindChild(declaration, "type_identifier")), <<>>)

\* The names a top-level statement exports, in the order of the source.
StatementNames(statement) ==
    IF statement.type # "export_statement" THEN <<>>
    ELSE Concat([i \in 1..Len(statement.children) |->
           LET child == statement.children[i]
           IN IF child.type \in DeclarationTypes THEN <<NameOf(child)>>
              ELSE IF child.type \in VariableStatementTypes
              THEN Concat([j \in 1..Len(child.children) |->
                      IF child.children[j].type = "variable_declarator"
                      THEN <<NameOf(child.children[j])>>
                      ELSE <<>>])
              ELSE <<>>])

\* The names the file exports at top level, in document order.
DocumentNames(root) ==
    Concat([i \in 1..Len(root.children) |-> StatementNames(root.children[i])])

RECURSIVE IsSubsequence(_, _)
\* Whether a is b with some elements left out.
IsSubsequence(a, b) ==
    IF a = <<>> THEN TRUE
    ELSE IF b = <<>> THEN FALSE
    ELSE IF Head(a) = Head(b) THEN IsSubsequence(Tail(a), Tail(b))
    ELSE IsSubsequence(a, Tail(b))

\* C14: the exports of a file are in document order: the names of the items,
\* in the order of the list, are the names the file's top-level export
\* statements declare, in the order of the source, with none out of place.
C14_DocumentOrder ==
    [][Extracted
       => IsSubsequence([i \in 1..Len(Emitted') |-> Emitted'[i].name],
                        DocumentNames(tree[1]))]_vars

\* C14 witness: a const statement with two declarators and then a function
\* were extracted, three items in the order of the source.
C14_Witness ==
    /\ pc = "render"
    /\ tree # None
    /\ tree[1].children = <<StmtConst, StmtFunction>>
    /\ [i \in 1..Len(Emitted) |-> Emitted[i].name] = <<(<<"c">>), (<<"d">>), (<<"f">>)>>

\* The block of the entry of a path among a set of entries with distinct
\* paths: nothing when there is no entry or it has no exports, otherwise the
\* marker line, one rendering for each export, and a blank line; each line
\* ends with a line break.
BlockOf(entries, path) ==
    LET here == {x \in entries : x.path = path /\ x.exports # <<>>}
        x == CHOOSE y \in here : TRUE
    IN IF here = {} THEN <<>>
       ELSE <<"// ", path, NL>>
            \o Concat([i \in 1..Len(x.exports) |-> FormatExport(x.exports[i]) \o <<NL>>])
            \o <<NL>>

\* The blocks of a set of entries in ascending order of path, the last line
\* break left off.
BlocksInPathOrder(entries) ==
    LET text == Concat([k \in 1..Len(PathOrder) |-> BlockOf(entries, PathOrder[k])])
    IN IF text = <<>> THEN <<>> ELSE SubSeq(text, 1, Len(text) - 1)

\* C15: the text generate writes is fixed by the set of entries, whatever the
\* order of the list: between the head and the tail of the template stand the
\* blocks of the entries that have exports, in ascending order of path, each
\* a marker line, the renderings of the exports in order, and a blank line.
C15_RenderOrderIndependent ==
    (pc = "render" /\ written # None)
    => written = Some(TemplateHead \o BlocksInPathOrder(Range(file_indices))
                      \o TemplateTail)

\* C15 witness: a list of two entries in descending order of path, the first
\* with exports and the second without, has been rendered and written.
C15_Witness ==
    /\ pc = "render"
    /\ tree = None
    /\ Len(file_indices) = 2
    /\ PathRank(file_indices[1].path) > PathRank(file_indices[2].path)
    /\ file_indices[1].exports # <<>>
    /\ file_indices[2].exports = <<>>
    /\ artifact = written

\* The rendering of an item with n members: for a class, interface or enum
\* with members, the signature and an opening brace, the first min(n, 10)
\* members on a line each, a line stating n - 10 more when n > 10, and the
\* closing brace; the signature alone otherwise.
ElidedRendering(item) ==
    LET n == Len(item.methods)
        shown == IF n < 10 THEN n ELSE 10
    IN IF item.kind \in {"class", "interface", "enum"} /\ n >= 1
       THEN item.signature \o <<" {", NL>>
            \o Concat([i \in 1..shown |-> <<"  ">> \o item.methods[i] \o <<NL>>])
            \o (IF n > 10
                THEN <<"  // ... and ", ToString(n - 10), " more", NL>>
                ELSE <<>>)
            \o <<"}">>
       ELSE item.signature

\* C16: what generate writes for the one file indexed holds, after the marker
\* line, each item as its signature line, followed for a class, interface or
\* enum with members by a brace-delimited block of its first min(n, 10)
\* members and, when n > 10, a line stating n - 10 more.
C16_MemberElision ==
    (tree # None /\ written # None /\ Emitted # <<>>)
    => written = Some(TemplateHead
                      \o <<"// ", indices[1].path, NL>>
                      \o Concat([i \in 1..Len(Emitted) |->
                                   ElidedRendering(Emitted[i]) \o <<NL>>])
                      \o TemplateTail)

\* C16 witness: a class of twelve methods was extracted and written: ten
\* member lines and the line saying 2 more.
C16_Witness ==
    /\ tree # None
    /\ tree[1].children = <<StmtWideClass(12)>>
    /\ Len(Emitted) = 1
    /\ Len(Emitted[1].methods) = 12
    /\ written # None
    /\ <<"  // ... and ", "2", " more">> =
           SubSeq(written[1], Len(written[1]) - 8, Len(written[1]) - 6)
    /\ artifact = written

\* The right-hand type text of a type alias declaration: the text of the node
\* that follows the `=`.
RightHandSide(declaration) ==
    LET eq == CHOOSE i \in 1..Len(declaration.children) :
                  declaration.children[i].type = "="
    IN GetText(declaration.children[eq + 1])

\* The type alias declarations the top-level export statements of a file hold.
TypeAliases(root) ==
    {d \in UNION {Range(root.children[i].children) :
                    i \in {k \in 1..Len(root.children) :
                              root.children[k].type = "export_statement"}} :
        d.type = "type_alias_declaration"}

\* C17: for every exported type alias, the item's signature is `export type`,
\* the name, ` = ` and the right-hand type text: verbatim when it has at most
\* 100 characters, otherwise its first 97 characters and `...`; that part never
\* has more than 100 characters.
C17_TypeAliasTruncation ==
    [][Extracted
       => \A d \in TypeAliases(tree[1]) :
            LET rhs == RightHandSide(d)
                shown == IF Len(rhs) > 100
                         THEN SubSeq(rhs, 1, 97) \o <<".", ".", ".">>
                         ELSE rhs
            IN /\ Len(shown) <= 100
               /\ \E i \in 1..Len(Emitted') :
                    /\ Emitted'[i].kind = "type"
                    /\ Emitted'[i].name = NameOf(d)
                    /\ Emitted'[i].signature =
                         <<"export type ">> \o NameOf(d) \o <<" = ">> \o shown]_vars

\* C17 witness: a type alias whose right-hand text has 150 characters was
\* extracted: the signature ends with 97 of them and the three dots.
C17_Witness ==
    /\ pc = "render"
    /\ tree # None
    /\ tree[1].children = <<StmtLongTypeAlias(150)>>
    /\ Len(Emitted) = 1
    /\ Len(Emitted[1].signature) = 3 + 100
    /\ Emitted[1].signature[3 + 97] = "7"
    /\ Emitted[1].signature[3 + 98] = "."

\* C18: every item the extractor yields has a kind of the closed set, and has
\* members only when it is a class, an interface or an enum.
C18_KindClosedSet ==
    tree # None
    => \A i \in 1..Len(Emitted) :
         /\ Emitted[i].kind \in {"function", "class", "interface", "type",
                                 "enum", "const", "variable"}
         /\ Emitted[i].methods # <<>>
            => Emitted[i].kind \in {"class", "interface", "enum"}

\* C18 witness: a let statement and a class with members were extracted: a
\* variable without members and a class with two.
C18_Witness ==
    /\ pc = "render"
    /\ tree # None
    /\ tree[1].children = <<StmtLet, StmtClass>>
    /\ Len(Emitted) = 2
    /\ Emitted[1].kind = "variable"
    /\ Emitted[1].methods = <<>>
    /\ Emitted[2].kind = "class"
    /\ Len(Emitted[2].methods) = 2

\* C19: no signature of an item the extractor yields holds a line break.
C19_SignatureOneLine ==
    tree # None
    => \A i \in 1..Len(Emitted) : NL \notin Range(Emitted[i].signature)

\* The file names of each language, by the extension whatever its case.
TypeScriptNames == {"a.ts", "C.TS", "types.d.ts"}
TsxNames == {"d.tsx", "D.Tsx"}
JavaScriptNames == {"e.js", "f.mjs", "F.MJS", "g.cjs"}
JsxNames == {"h.jsx", "H.JSX"}

\* The grammar of a file name by the table .ts, .tsx, .js/.mjs/.cjs, .jsx.
ExpectedLanguage(path) ==
    CASE path \in TypeScriptNames -> Some("typescript")
      [] path \in TsxNames -> Some("tsx")
      [] path \in JavaScriptNames -> Some("javascript")
      [] path \in JsxNames -> Some("jsx")
      [] OTHER -> None

\* C20: when _index_file is called on a file, the language the dispatcher
\* gives is the one of the table for the file's extension, whatever the case
\* of the extension, and none for any other extension; a file with no
\* language is not indexed, and a file with a language and exports is.
C20_LanguageDispatch ==
    [][(pc = "extract" /\ pc' = "render")
       => /\ GetLanguageForFile(Head(todo)) = ExpectedLanguage(Head(todo))
          /\ ExpectedLanguage(Head(todo)) = None => indices' = <<>>
          /\ (ExpectedLanguage(Head(todo)) # None /\ ExtractExports(tree[1]) # <<>>)
             => /\ Len(indices') = 1
                /\ indices'[1].path = Head(todo)]_vars

\* C20 witness: a file whose extension is written in capitals was given the
\* typescript grammar and indexed.
C20_Witness ==
    /\ pc = "render"
    /\ tree # None
    /\ Len(indices) = 1
    /\ indices[1].path = "C.TS"
    /\ indices[1].exports # <<>>

\* The declarations of one node type that the top-level export statements of a
\* file hold.
ExportedDeclarations(root, type_name) ==
    {root.children[ij[1]].children[ij[2]] :
        ij \in {xy \in (1..Len(root.children)) \X (1..4) :
                  /\ root.children[xy[1]].type = "export_statement"
                  /\ xy[2] <= Len(root.children[xy[1]].children)
                  /\ root.children[xy[1]].children[xy[2]].type = type_name}}

\* The item of a list of exports that carries a name, if there is one.
ItemNamed(items, name) ==
    LET hits == {i \in 1..Len(items) : items[i].name = name}
    IN IF hits = {} THEN None ELSE Some(items[CHOOSE i \in hits : \A j \in hits : i <= j])

\* The member lines of an interface declaration as the source spells them:
\* NAME[?][: TYPE] for a property, NAME[?](PARAMS)[: RETURN] for a method.
MembersWithMarker(declaration) ==
    LET body == OrElse(FindChild(declaration, "interface_body"),
                       FindChild(declaration, "object_type"))
        marker(m) == IF HasChild(m, "?") THEN <<"?">> ELSE <<>>
        name(m) == TextOr(FindChild(m, "property_identifier"), <<>>)
        line(m) ==
            IF m.type = "property_signature"
            THEN <<name(m) \o marker(m) \o TextOr(FindChild(m, "type_annotation"), <<>>)>>
            ELSE IF m.type = "method_signature"
            THEN <<name(m) \o marker(m)
                     \o TextOr(FindChild(m, "formal_parameters"), <<"()">>)
                     \o TextOr(FindChild(m, "type_annotation"), <<>>)>>
            ELSE <<>>
    IN IF body = None THEN <<>>
       ELSE Concat([i \in 1..Len(body[1].children) |-> line(body[1].children[i])])

\* C21: the members of an exported interface keep the optional marker: a
\* property is listed as NAME[?][: TYPE] and a method as NAME[?](PARAMS)[: RETURN],
\* so `export interface Foo { bar: string; baz?(x: number): void; }` has exactly
\* the members "bar: string" and "baz?(x: number): void".
C21_OptionalMarkerKept ==
    [][Extracted
       => \A d \in ExportedDeclarations(tree[1], "interface_declaration") :
             /\ ItemNamed(Emitted', NameOf(d)) # None
             /\ ItemNamed(Emitted', NameOf(d))[1].methods = MembersWithMarker(d)]_vars

\* The statement keyword of a variable statement: const, let or var.
KeywordOf(statement) ==
    LET kws == {i \in 1..Len(statement.children) :
                   statement.children[i].type \in {"const", "let", "var"}}
    IN IF kws = {} THEN "const"
       ELSE statement.children[CHOOSE i \in kws : \A j \in kws : i <= j].type

\* The declarators of a variable statement.
DeclaratorsOf(statement) ==
    {statement.children[i] : i \in {j \in 1..Len(statement.children) :
                                       statement.children[j].type = "variable_declarator"}}

\* Whether what a declarator binds is one identifier (otherwise it is a
\* destructuring pattern).
BindsIdentifier(declarator) == declarator.children[1].type = "identifier"

\* The function value of a declarator, if its initializer is one.
FunctionValue(declarator) ==
    LET fns == {i \in 1..Len(declarator.children) :
                   declarator.children[i].type
                      \in {"arrow_function", "function_expression", "function"}}
    IN IF fns = {} THEN None
       ELSE Some(declarator.children[CHOOSE i \in fns : \A j \in fns : i <= j])

\* The item a declarator that binds an identifier is to yield:
\* `export KEYWORD NAME = (PARAMS)[: RETURN] => ...` of kind function for a
\* function value, `export KEYWORD NAME[: TYPE]` of kind const or variable
\* otherwise.
DeclaratorItem(declarator, keyword) ==
    LET name == GetText(declarator.children[1])
        value == FunctionValue(declarator)
        params_node == FindChild(value[1], "formal_parameters")
        params == IF params_node # None THEN GetText(params_node[1])
                  ELSE <<"(">> \o TextOr(FindChild(value[1], "identifier"), <<>>) \o <<")">>
        head == <<"export ", keyword, " ">> \o name
    IN IF value # None
       THEN ExportedItem("function", name,
                head \o <<" = ">> \o params
                     \o TextOr(FindChild(value[1], "type_annotation"), <<>>)
                     \o <<" => ...">>, <<>>)
       ELSE ExportedItem(IF keyword = "const" THEN "const" ELSE "variable", name,
                head \o TextOr(FindChild(declarator, "type_annotation"), <<>>), <<>>)

\* The identifiers among the children of a declarator.
IdentifiersOf(declarator) ==
    {GetText(declarator.children[i]) : i \in {j \in 1..Len(declarator.children) :
                                                 declarator.children[j].type = "identifier"}}

\* C22: each declarator of an exported const, let or var statement that binds
\* an identifier yields one item: of kind function with the signature
\* `export KEYWORD NAME = (PARAMS)[: RETURN] => ...` when the initializer is an
\* arrow function or a function expression, and otherwise with the signature
\* `export KEYWORD NAME[: TYPE]` and kind const for const, variable for let and
\* var; a destructuring declarator yields no item.
C22_DeclaratorSignature ==
    [][Extracted
       => \A statement \in ExportedDeclarations(tree[1], "lexical_declaration")
                             \cup ExportedDeclarations(tree[1], "variable_declaration") :
             \A declarator \in DeclaratorsOf(statement) :
                IF BindsIdentifier(declarator)
                THEN ItemNamed(Emitted', GetText(declarator.children[1]))
                        = Some(DeclaratorItem(declarator, KeywordOf(statement)))
                ELSE \A name \in IdentifiersOf(declarator) :
                        ItemNamed(Emitted', name) = None]_vars

\* The signature `export [default ]function NAME(PARAMS)[: RETURN]` of a function
\* declaration or function signature node; a missing parameter list is `()`.
FunctionLine(node, with_default) ==
    (IF with_default THEN <<"export default ">> ELSE <<"export ">>)
       \o <<"function ">> \o NameOf(node)
       \o TextOr(FindChild(node, "formal_parameters"), <<"()">>)
       \o TextOr(FindChild(node, "type_annotation"), <<>>)

\* The functions a file exports: the function declarations and function
\* signatures of its top-level export statements, each with the index of its
\* statement.
ExportedFunctions(root) ==
    {xy \in (1..Len(root.children)) \X (1..4) :
        /\ root.children[xy[1]].type = "export_statement"
        /\ xy[2] <= Len(root.children[xy[1]].children)
        /\ root.children[xy[1]].children[xy[2]].type
              \in {"function_declaration", "function_signature"}}

\* C23: an exported function declaration yields an item of kind function with
\* the signature `export [default ]function NAME(PARAMS)[: RETURN]`, `default `
\* being there exactly when the export statement has the default token, the
\* parameters and the return annotation verbatim, and `()` for a missing
\* parameter list; a function signature gets the same form without `default `.
C23_FunctionSignatureFormat ==
    [][Extracted
       => \A xy \in ExportedFunctions(tree[1]) :
             LET statement == tree[1].children[xy[1]]
                 node == statement.children[xy[2]]
                 with_default == /\ node.type = "function_declaration"
                                 /\ HasChild(statement, "default")
             IN ItemNamed(Emitted', NameOf(node))
                   = Some(ExportedItem("function", NameOf(node),
                                       FunctionLine(node, with_default), <<>>))]_vars

\* C23 witness: a default-exported function was extracted and its signature
\* starts with `export default function`.
C23_Witness ==
    /\ pc = "render"
    /\ tree = Some(Program(<<StmtDefaultFunction>>))
    /\ Len(Emitted) = 1
    /\ Emitted[1].signature = <<"export default ", "function ", "dflt", "(a)">>

\* Whether a method definition is marked private.
MarkedPrivate(method) ==
    \E i \in 1..Len(method.children) :
       /\ method.children[i].type \in {"private", "accessibility_modifier"}
       /\ GetText(method.children[i]) = <<"private">>

\* The member lines of a class declaration: `[async ][static ]NAME(PARAMS)[: RETURN]`
\* for each named method that is not private, `NAME[: TYPE]` for each named
\* field, in the order of the class body.
ClassMemberLines(declaration) ==
    LET body == FindChild(declaration, "class_body")
        name(m) == FindChild(m, "property_identifier")
        line(m) ==
            IF name(m) = None THEN <<>>
            ELSE IF m.type = "method_definition"
            THEN IF MarkedPrivate(m) THEN <<>>
                 ELSE <<(IF HasChild(m, "async") THEN <<"async", " ">> ELSE <<>>)
                        \o (IF HasChild(m, "static") THEN <<"static", " ">> ELSE <<>>)
                        \o GetText(name(m)[1])
                        \o TextOr(FindChild(m, "formal_parameters"), <<"()">>)
                        \o TextOr(FindChild(m, "type_annotation"), <<>>)>>
            ELSE IF m.type = "public_field_definition"
            THEN <<GetText(name(m)[1]) \o TextOr(FindChild(m, "type_annotation"), <<>>)>>
            ELSE <<>>
    IN IF body = None THEN <<>>
       ELSE Concat([i \in 1..Len(body[1].children) |-> line(body[1].children[i])])

\* C24: the members of an exported class are, in the order of the class body,
\* each named method that is not marked private as
\* `[async ][static ]NAME(PARAMS)[: RETURN]`, async before static when both are
\* present, and each field as `NAME[: TYPE]`; a private method is not listed.
C24_ClassMembers ==
    [][Extracted
       => \A d \in ExportedDeclarations(tree[1], "class_declaration") :
             /\ ItemNamed(Emitted', NameOf(d)) # None
             /\ ItemNamed(Emitted', NameOf(d))[1].methods = ClassMemberLines(d)]_vars

\* The node types _process_export_statement has a branch for, and for each the
\* node types its name is looked up under.
HandledTypes ==
    {"function_declaration", "class_declaration", "type_alias_declaration",
     "interface_declaration", "lexical_declaration", "enum_declaration",
     "function_signature"}
NameTypes(type_name) ==
    CASE type_name \in {"function_declaration", "function_signature", "enum_declaration"}
           -> {"identifier"}
      [] type_name = "class_declaration" -> {"identifier", "type_identifier"}
      [] type_name \in {"type_alias_declaration", "interface_declaration"}
           -> {"type_identifier"}
      [] type_name = "variable_declarator" -> {"identifier"}
      [] OTHER -> {}

\* Whether the name of a declaration or declarator cannot be located.
Nameless(node) ==
    /\ node.type \in HandledTypes \cup {"variable_declarator"}
    /\ node.type # "lexical_declaration"
    /\ \A i \in 1..Len(node.children) : node.children[i].type \notin NameTypes(node.type)

\* Whether a child of an export statement is a construct the extractor skips:
\* a node (not a token) of a kind it has no branch for, or a declaration
\* without a name.
Skipped(child) ==
    /\ child.children # <<>>
    /\ child.type \notin HandledTypes \/ Nameless(child)

\* A sequence of nodes without those that satisfy a test.
Without(nodes, test(_)) ==
    Concat([i \in 1..Len(nodes) |-> IF test(nodes[i]) THEN <<>> ELSE <<nodes[i]>>])

\* A file's tree with the skipped constructs taken out of its export
\* statements, and the nameless declarators out of their const and let
\* statements.
Pruned(root) ==
    LET declaration(d) ==
            IF d.type = "lexical_declaration"
            THEN [d EXCEPT !.children = Without(d.children, Nameless)]
            ELSE d
        statement(x) ==
            IF x.type # "export_statement" THEN x
            ELSE [x EXCEPT !.children =
                     LET kept == Without(x.children, Skipped)
                     IN [i \in 1..Len(kept) |-> declaration(kept[i])]]
    IN [root EXCEPT !.children = [i \in 1..Len(root.children) |->
                                     statement(root.children[i])]]

EventPaths(e) == IF e.kind = "moved" THEN {e.src_path, e.dest_path} ELSE {e.src_path}

\* A handler of CursorContextHandler returns.
HandlerReturns == handling # None /\ handling' = None

\* update_structure, or update_index, goes past its debounce test and starts a
\* recomputation.
StructureStarts == last_structure_update' # last_structure_update
IndexStarts == last_index_update' # last_index_update

\* C26: the watcher does not trigger itself: the handler of an event whose
\* paths all have a `.cursor` component (the tool's own files and their
\* directory) starts no structure regeneration, the handler of an event none
\* of whose paths has a supported source extension starts no index
\* regeneration, so that the events ever reported are at most three for each
\* external change (the change, and the two reports of the one structure write
\* it may cause), and once the external changes stop the queue empties and the
\* observer stays idle.
C26_NoSelfTrigger ==
    /\ [][(HandlerReturns /\ \A p \in EventPaths(handling[1]) : ".cursor" \in Parts(p))
          => ~StructureStarts /\ structure_file' = structure_file]_vars
    /\ [][(HandlerReturns
           /\ \A p \in EventPaths(handling[1]) : Lower(Suffix(p)) \notin IndexableExtensions)
          => ~IndexStarts /\ UNCHANGED <<artifact, written, report, index_pending>>]_vars
    /\ [](delivered <= 3 * changes)
    /\ <>[](queue = <<>> /\ handling = None)

\* C26 witness: after one change of the project, the observer has handed the
\* handler the report of the tool's own write to the rules directory, at a
\* time at which update_structure would go past its debounce test.
C26_Witness ==
    /\ changes = 1
    /\ writable
    /\ handling # None
    /\ handling[1].src_path = RulesDirectory
    /\ handling[1].is_directory
    /\ DebouncePasses(last_structure_update)

\* The handler returns from an event for which it called update_index, or
\* update_structure.
IndexCallReturns == HandlerReturns /\ CallsUpdateIndex(handling[1])
StructureCallReturns == HandlerReturns /\ CallsUpdateStructure(handling[1])

\* What a recomputation of the index, or of the structure, may change besides
\* the timestamp.
index_outputs == <<artifact, written, file_indices, rerendered, report>>
structure_outputs == <<structure_file, queue, delivered>>

\* C27: recomputations are spaced: update_index starts a recomputation only
\* when at least update_delay has passed since the last call that started
\* one, and then records the time; a call that comes sooner changes nothing;
\* so two starts are at least update_delay apart. The same holds for
\* update_structure.
C27_MinimumSpacing ==
    /\ [][IndexCallReturns
          => IF now - last_index_update >= UpdateDelay
             THEN last_index_update' = now
             ELSE UNCHANGED <<last_index_update, index_outputs>>]_vars
    /\ [][StructureCallReturns
          => IF now - last_structure_update >= UpdateDelay
             THEN last_structure_update' = now
             ELSE UNCHANGED <<last_structure_update, structure_outputs>>]_vars
    /\ [][IndexStarts => last_index_update' - last_index_update >= UpdateDelay]_vars
    /\ [][StructureStarts
          => last_structure_update' - last_structure_update >= UpdateDelay]_vars

\* C27 witness: a recomputation of the index started after the first one, a
\* window or more later, and a call of update_index then came within its
\* window and returned early.
C27_Witness ==
    /\ index_pending
    /\ last_index_update = now
    /\ last_index_update > UpdateDelay
    /\ handling = None

\* C28: the two debounce windows are independent: whether update_index starts
\* a recomputation depends on last_index_update alone, and only update_index
\* changes it; whether update_structure starts one depends on
\* last_structure_update alone, and only update_structure changes it. So an
\* event that creates, deletes or moves an indexable file starts the index
\* recomputation whenever the index window is over, the structure
\* regeneration the same event has just started notwithstanding.
C28_IndependentWindows ==
    /\ [][(IndexCallReturns /\ now - last_index_update >= UpdateDelay)
          => last_index_update' = now /\ ~index_pending']_vars
    /\ [][(StructureCallReturns /\ now - last_structure_update >= UpdateDelay)
          => last_structure_update' = now]_vars
    /\ [][last_index_update' # last_index_update => IndexCallReturns]_vars
    /\ [][last_structure_update' # last_structure_update
          => StructureCallReturns]_vars

\* C28 witness: the first event the handler was given was the creation,
\* deletion or move of an indexable file, and both recomputations started at
\* the time of that one call.
C28_Witness ==
    /\ dispatched = 1
    /\ handling = None
    /\ last_structure_update = now
    /\ last_index_update = now
    /\ ~index_pending

\* C29: the watcher survives a recomputation that fails: the exception is
\* caught in update_index or update_structure, so the handler returns and the
\* observer keeps running; the timestamp was advanced before the attempt, so
\* the failed attempt opens a window; and an event that comes once the window
\* is over is handled as any other: the structure is regenerated if the file
\* can be written, and the index recomputation is started again.
C29_SurvivesFailure ==
    /\ [][HandlerReturns => pc = "watching" /\ pc' = "watching"]_vars
    /\ [][(HandlerReturns /\ IndexRaises(handling[1]))
          => last_index_update' = now /\ report' = "update_error"]_vars
    /\ [][(HandlerReturns /\ StructureRaises(handling[1]))
          => last_structure_update' = now /\ UNCHANGED structure_outputs]_vars
    /\ [][(StructureCallReturns /\ now - last_structure_update >= UpdateDelay /\ writable)
          => /\ structure_file' = Some(ScanDirectory(fs))
             /\ last_structure_update' = now]_vars
    /\ [][(IndexCallReturns /\ now - last_index_update >= UpdateDelay)
          => last_index_update' = now /\ ~index_pending']_vars

\* C29 witness: while .cursor/rules was read-only, one event started both
\* recomputations and both failed: the timestamps are those of the attempt,
\* the structure file is out of date, and the observer still runs.
C29_Witness ==
    /\ pc = "watching"
    /\ ~writable
    /\ handling = None
    /\ report = "update_error"
    /\ last_index_update = now
    /\ last_structure_update = now
    /\ structure_file # Some(ScanDirectory(fs))

====
